---- MODULE Spec2Model ----
(***************************************************************************)
(* Model of ega-biomongo-tools: the handlers of src/source (insert,        *)
(* update_value, rename_field, remove_field, restore_value) over a         *)
(* document collection and the log_details collection, with the per-       *)
(* document log built by src/source/log_functions.py.                      *)
(*                                                                         *)
(* Every action is one store call of a handler (find_one, insert_one,      *)
(* update_one, bulk_write, insertLog, deleteLog) together with the local   *)
(* computation that follows it up to the next store call, so every         *)
(* reachable state is a state the two collections can be persisted in.     *)
(***************************************************************************)
EXTENDS Integers, Sequences, FiniteSets, TLC

VARIABLES coll,         \* the managed collection: a sequence of documents, _id = index
          log_details,  \* the ids of the Process Records that exist
          nextId,       \* the id the next Process Record gets
          inv           \* per caller: the running (or last finished) handler invocation

vars == <<coll, log_details, nextId, inv>>

(***************************************************************************)
(* Bounds and input sets                                                   *)
(***************************************************************************)
\* Number of Process Records one behaviour may create.
MaxProc == 2

Slots == {1, 2}
\* The field names given to the update and restore handlers
Fields == {"tags", "name"}
\* The paths a stored document may hold: the top-level keys and the keys of
\* the mappings `info` and `name`; `logbook` is an ordinary key whose name
\* begins with "log"
Paths == Fields \cup {"info", "info.legacy_name", "info.new_name", "name.first", "logbook"}
\* The paths given to removeOne/removeAll: stored paths and `name.first`,
\* whose first segment never holds a mapping
RemovePaths == Fields \cup {"info.legacy_name", "name.first"}
\* The (rename_field, new_field_name) pairs given to renameOne/renameAll
RenamePairs ==
  {<<"tags", "name">>, <<"name", "tags">>, <<"info.legacy_name", "info.new_name">>,
   <<"name.first", "tags">>}
\* Criteria of the single-document handlers: X is stored, Z is not.
CritIds == {"X", "Z"}

(***************************************************************************)
(* Values.  A Python value is a kind and its elements: None, a scalar      *)
(* (one element) or a list; "absent" marks a key the document lacks.       *)
(* Elements are strings; the booleans True/False are the elements          *)
(* "<True>"/"<False>", distinct from every text.                           *)
(***************************************************************************)
Absent == [k |-> "absent", v |-> <<>>]
Null == [k |-> "null", v |-> <<>>]
Scalar(a) == [k |-> "scalar", v |-> <<a>>]
List(s) == [k |-> "list", v |-> s]

IsList(x) == x.k = "list"
IsNone(x) == x.k = "null"
NonExisting == Scalar("Non-existing")

Range(s) == {s[i] : i \in DOMAIN s}
\* list(S) of a Python set S: its elements once each, in an order the
\* interpreter picks.
Orders(S) == {s \in [1..Cardinality(S) -> S] : \A i, j \in 1..Cardinality(S) : s[i] = s[j] => i = j}

\* [x for x in s if x not in drop]
RECURSIVE Without(_, _)
Without(s, drop) ==
  IF s = <<>> THEN <<>>
  ELSE (IF Head(s) \in Range(drop) THEN <<>> ELSE <<Head(s)>>) \o Without(Tail(s), drop)

(***************************************************************************)
(* Operation tags (conf.py): the leading word and the rest of the tag.     *)
(***************************************************************************)
TagInsert == <<"insert", "">>
TagInsertOverwrite == <<"insert", "-overwrite">>
TagUpdateOne == <<"update", "_one">>
TagUpdateAll == <<"update", "_all">>
TagUpdateFile == <<"update", "_with_file">>
TagRestoreOne == <<"restore", "_one">>
TagRestoreAll == <<"restore", "_all">>
TagRename == <<"rename", "_field">>
TagRemove == <<"remove", "_field">>

\* str.startswith on a tag, for a prefix that is a leading word
StartsWith(tag, word) == tag[1] = word

(***************************************************************************)
(* Documents and log entries                                               *)
(***************************************************************************)
\* A mapping; its keys are held as the paths below it
Dict == [k |-> "dict", v |-> <<>>]

\* The path of the mapping a dotted path lies in, "" for a top-level key
Parent(path) ==
  CASE path \in {"info.legacy_name", "info.new_name"} -> "info"
    [] path = "name.first" -> "name"
    [] OTHER -> ""

NoFields == [k \in Paths |-> Absent]

\* The top-level key a path starts with
TopKey(path) == IF Parent(path) = "" THEN path ELSE Parent(path)

\* The fields of a document that holds the paths of r and no others
Flds(r) == [k \in Paths |-> IF k \in DOMAIN r THEN r[k] ELSE Absent]

\* info: {"legacy_name": v}
InfoLegacy(v) == [k \in {"info", "info.legacy_name"} |-> IF k = "info" THEN Dict ELSE v]
NoDoc == [id |-> 0, sid |-> "", f |-> NoFields, log |-> <<>>]

\* dict.get(key): None for a missing key
Get(f, key) == IF f[key].k = "absent" THEN Null ELSE f[key]

\* {"field": .., "added": .., "removed": .., "renamed_to": ..}; a key that is
\* not written reads as the empty list (or "" for renamed_to).
Desc(field, added, removed, renamed_to) ==
  [field |-> field, added |-> added, removed |-> removed, renamed_to |-> renamed_to]

\* A log entry.  shape: "single" (modified_field [+ changed_values]),
\* "multi" (modified_fields), "bare" (log_id and operation only).
Entry(pid, op, shape, field, has_cv, added, removed, mfs) ==
  [log_id |-> pid, operation |-> op, shape |-> shape, modified_field |-> field,
   has_cv |-> has_cv, added |-> added, removed |-> removed, modified_fields |-> mfs]

\* Variant: the criteria are ignored, the first document is returned
FindOneFirst(c, sid) == IF c # <<>> THEN c[1] ELSE NoDoc

\* collection.find_one({"stable_id": sid}): the first match, or NoDoc
FindOne(c, sid) ==
  IF \E i \in DOMAIN c : c[i].sid = sid
  THEN c[CHOOSE i \in DOMAIN c : c[i].sid = sid /\ \A j \in DOMAIN c : c[j].sid = sid => i <= j]
  ELSE NoDoc

\* One single-document write: $set of fields, $unset of fields, and either a
\* $set of the whole log array or a $push at position 0.
Write(set, unset, haslog, log, push) ==
  [set |-> set, unset |-> unset, haslog |-> haslog, log |-> log, push |-> push]

\* A $set of a dotted path creates the mapping it lies in; a key that is set
\* or unset as a whole loses the paths below it.
Apply(doc, w) ==
  [doc EXCEPT
     !.f = [k \in Paths |-> IF k \in DOMAIN w.set THEN w.set[k]
                            ELSE IF k \in w.unset THEN Absent
                            ELSE IF \E p \in DOMAIN w.set : Parent(p) = k THEN Dict
                            ELSE IF Parent(k) \in w.unset \cup DOMAIN w.set THEN Absent
                            ELSE doc.f[k]],
     !.log = IF w.haslog THEN w.log ELSE w.push \o doc.log]

\* collection.update_one({"_id": id}, w)
UpdateStore(c, id, w) == [c EXCEPT ![id] = Apply(c[id], w)]
ModifiedCount(c, id, w) == IF id \in DOMAIN c /\ Apply(c[id], w) # c[id] THEN 1 ELSE 0

(***************************************************************************)
(* log_functions.updateLog                                                 *)
(***************************************************************************)
PrevList(v) == IF IsList(v) THEN v.v ELSE IF ~IsNone(v) /\ v # NonExisting THEN v.v ELSE <<>>
NewList(v) == IF IsList(v) THEN v.v ELSE IF ~IsNone(v) THEN v.v ELSE <<>>
HasChangedValues(prev) == ~IsNone(prev) /\ prev # NonExisting

\* Elements that are embedded objects: set() cannot hash them
ObjectElems == {"{o1}", "{o2}"}

\* set(new_list) - set(prev_list) raises TypeError on an element without hash
UpdateLogRaises(prev, new) ==
  \E e \in Range(NewList(new)) \cup Range(PrevList(prev)) : e \in ObjectElems

\* Variant: every element of the new value is taken as added
AddedValuesAll(prev, new) == Orders(Range(NewList(new)))

AddedValues(prev, new) == Orders(Range(NewList(new)) \ Range(PrevList(prev)))
RemovedValues(prev, new) == Orders(Range(PrevList(prev)) \ Range(NewList(new)))

\* The entries updateLog may build (one per order of the two set differences)
UpdateLogEntries(pid, op, field, prev, new) ==
  {Entry(pid, op, "single", field, HasChangedValues(prev),
         IF HasChangedValues(prev) THEN a ELSE <<>>,
         IF HasChangedValues(prev) THEN r ELSE <<>>, <<>>) :
     a \in AddedValues(prev, new), r \in RemovedValues(prev, new)}

\* Variant: the entry is put at the end of the log
PrependAtEnd(e, log) == log \o <<e>>

\* existing_log.insert(0, new_log)
Prepend(e, log) == <<e>> \o log

UpdateLog(doc, pid, op, field, prev, new) ==
  {Prepend(e, doc.log) : e \in UpdateLogEntries(pid, op, field, prev, new)}

(***************************************************************************)
(* Value normalizer of updateOne / updateAll.  A raw text is the sequence  *)
(* of its ';'-separated pieces (one piece: no ';' in the text).            *)
(***************************************************************************)
RawText(pieces) == [isstr |-> TRUE, pieces |-> pieces, val |-> Null]

\* new_value.lower().strip() of a text without ';'
LowerStrip(t) ==
  CASE t \in {"True", "TRUE", " true"} -> "true"
    [] t \in {"False", "FALSE"} -> "false"
    [] t \in {"None", "NONE", "none "} -> "none"
    [] OTHER -> t

Normalize(raw) ==
  IF raw.isstr
  THEN IF Len(raw.pieces) = 1 /\ LowerStrip(raw.pieces[1]) \in {"true", "false"}
       THEN Scalar(IF LowerStrip(raw.pieces[1]) = "true" THEN "<True>" ELSE "<False>")
       ELSE IF Len(raw.pieces) = 1 /\ LowerStrip(raw.pieces[1]) = "none" THEN Null
       ELSE IF Len(raw.pieces) > 1 THEN List(raw.pieces)
       ELSE Scalar(raw.pieces[1])
  ELSE raw.val

RawValues == {RawText(<<"a", "c">>), RawText(<<"b">>), RawText(<<"None">>)}

\* The CSV files given to updateFile
CsvFiles ==
  {[update_fields |-> <<"tags">>,
    rows |-> <<[match |-> [t |-> "text", pieces |-> <<"X">>],
                cells |-> [tags |-> [t |-> "text", pieces |-> <<"a", "d">>]]]>>],
   [update_fields |-> <<"tags">>,
    rows |-> <<[match |-> [t |-> "text", pieces |-> <<"X">>],
                cells |-> [tags |-> [t |-> "text", pieces |-> <<"a", "b">>]]],
               [match |-> [t |-> "nan", pieces |-> <<>>],
                cells |-> [tags |-> [t |-> "text", pieces |-> <<"b">>]]]>>],
   [update_fields |-> <<"name">>,
    rows |-> <<[match |-> [t |-> "text", pieces |-> <<"W">>],
                cells |-> [name |-> [t |-> "nan", pieces |-> <<>>]]]>>],
   [update_fields |-> <<"tags">>,
    rows |-> <<[match |-> [t |-> "text", pieces |-> <<"X">>],
                cells |-> [tags |-> [t |-> "text", pieces |-> <<"b">>]]],
               [match |-> [t |-> "text", pieces |-> <<"X">>],
                cells |-> [tags |-> [t |-> "text", pieces |-> <<"c">>]]]>>]}

\* The JSON files given to updateFile
JsonFiles ==
  {<<[has_sid |-> TRUE, sid |-> "X", f |-> Flds([tags |-> List(<<"b", "a">>), name |-> Null])]>>,
   <<[has_sid |-> FALSE, sid |-> "", f |-> Flds([tags |-> Scalar("a"), name |-> Absent])],
     [has_sid |-> TRUE, sid |-> "Y", f |-> Flds([tags |-> Scalar("a"), name |-> Absent])]>>,
   <<[has_sid |-> TRUE, sid |-> "V", f |-> Flds([tags |-> Scalar("a"), name |-> Absent])]>>,
   <<[has_sid |-> TRUE, sid |-> "T", f |-> Flds([tags |-> Absent, name |-> Absent])]>>,
   <<[has_sid |-> TRUE, sid |-> "X", f |-> Flds([name |-> Scalar("v2"), logbook |-> Scalar("p1")])]>>,
   <<[has_sid |-> TRUE, sid |-> "X", f |-> Flds([name |-> Scalar("v2")])],
     [has_sid |-> TRUE, sid |-> "X", f |-> Flds([name |-> Scalar("c")])]>>}

\* The JSON files given to insertDocuments
InsertFiles ==
  {<<[has_sid |-> TRUE, sid |-> "X", f |-> Flds(InfoLegacy(Scalar("v1")) @@ [tags |-> List(<<"a", "b">>), name |-> Scalar("v1")])]>>,
   <<[has_sid |-> TRUE, sid |-> "Y", f |-> Flds([tags |-> Scalar("b"), name |-> Absent])],
     [has_sid |-> TRUE, sid |-> "U", f |-> Flds([tags |-> Scalar("a"), name |-> Absent])]>>,
   <<[has_sid |-> FALSE, sid |-> "", f |-> Flds([tags |-> Scalar("a"), name |-> Absent])],
     [has_sid |-> TRUE, sid |-> "U", f |-> Flds([tags |-> Scalar("a"), name |-> Absent])]>>,
   <<[has_sid |-> TRUE, sid |-> "X", f |-> Flds(InfoLegacy(Scalar("v1")) @@ [tags |-> Scalar("a"), name |-> Scalar("v2")])],
     [has_sid |-> TRUE, sid |-> "X", f |-> Flds(InfoLegacy(Scalar("v1")) @@ [tags |-> Scalar("a"), name |-> Scalar("v2")])]>>,
   <<[has_sid |-> TRUE, sid |-> "X", f |-> Flds([tags |-> Absent, name |-> Scalar("v2")])],
     [has_sid |-> TRUE, sid |-> "X", f |-> Flds([tags |-> Scalar("a"), name |-> Absent])]>>,
   <<[has_sid |-> TRUE, sid |-> "Y", f |-> Flds([tags |-> Scalar("b"), logbook |-> Scalar("p1")])]>>,
   <<[has_sid |-> TRUE, sid |-> "U", f |-> Flds([tags |-> Scalar("a"), name |-> Absent])],
     [has_sid |-> TRUE, sid |-> "U", f |-> Flds([tags |-> Scalar("b"), name |-> Absent])]>>,
   <<[has_sid |-> TRUE, sid |-> "X", f |-> Flds([name |-> Scalar("v2")])]>>}

(***************************************************************************)
(* Invocations                                                             *)
(***************************************************************************)
Idle ==
  [h |-> "none", pc |-> "done", out |-> "", pid |-> 0, sid |-> "", field |-> "",
   field2 |-> "", newv |-> Null, log_id |-> 0, doc |-> NoDoc, cur |-> Null,
   ulog |-> <<>>, docs |-> <<>>, i |-> 0, cnt |-> 0, bulk |-> <<>>, file |-> <<>>,
   pre |-> <<>>]

CanStart(s) == inv[s].pc = "done" /\ nextId <= MaxProc

Begin(h, pc) == [Idle EXCEPT !.h = h, !.pc = pc, !.pre = coll]

\* log_functions.insertLog
InsertLog(s) ==
  /\ log_details' = log_details \cup {nextId}
  /\ nextId' = nextId + 1

\* Variant: the Process Record is left in log_details
DeleteLogKept(s) ==
  /\ inv[s].pc = "deleteLog"
  /\ inv' = [inv EXCEPT ![s].pc = "done"]
  /\ UNCHANGED <<coll, log_details, nextId>>

\* log_functions.deleteLog, the last store call of a handler that changed nothing
DeleteLog(s) ==
  /\ inv[s].pc = "deleteLog"
  /\ log_details' = log_details \ {inv[s].pid}
  /\ inv' = [inv EXCEPT ![s].pc = "done"]
  /\ UNCHANGED <<coll, nextId>>

(***************************************************************************)
(* update_value.updateOne                                                  *)
(***************************************************************************)
\* current_value = current_value.get(key) along update_field: the walk stops
\* at None; a value that is neither None nor a mapping has no `get`
\* (AttributeError)
WalkRaises(doc, field) ==
  Parent(field) # "" /\ doc.f[Parent(field)].k \in {"scalar", "list"}

\* The value the walk ends with when it does not raise
WalkGet(doc, field) ==
  IF Parent(field) = "" THEN Get(doc.f, field)
  ELSE IF doc.f[Parent(field)].k = "dict" /\ field \in Paths THEN Get(doc.f, field)
  ELSE Null

UpdateOneFind(s, sid, field, raw) ==
  /\ CanStart(s)
  /\ LET doc == FindOne(coll, sid) IN
     inv' = [inv EXCEPT ![s] =
       [Begin("updateOne", IF doc = NoDoc THEN "done" ELSE "insertLog") EXCEPT
          !.out = IF doc = NoDoc THEN "not_found" ELSE "",
          !.sid = sid, !.field = field, !.newv = Normalize(raw), !.doc = doc]]
  /\ UNCHANGED <<coll, log_details, nextId>>

UpdateOneInsertLog(s) ==
  /\ inv[s].h = "updateOne" /\ inv[s].pc = "insertLog"
  /\ InsertLog(s)
  /\ LET noget == WalkRaises(inv[s].doc, inv[s].field)
         cur == IF noget THEN Null ELSE WalkGet(inv[s].doc, inv[s].field)
         same == ~noget /\ ~IsNone(cur) /\ cur = inv[s].newv
         raised == ~noget /\ ~same /\ UpdateLogRaises(cur, inv[s].newv)
     IN \E ulog \in UpdateLog(inv[s].doc, nextId, TagUpdateOne, inv[s].field, cur, inv[s].newv) :
          inv' = [inv EXCEPT ![s].pid = nextId, ![s].cur = cur,
                             ![s].out = IF noget THEN "AttributeError"
                                        ELSE IF same THEN "same"
                                        ELSE IF raised THEN "TypeError" ELSE "",
                             ![s].ulog = IF noget \/ same \/ raised THEN <<>> ELSE ulog,
                             ![s].pc = IF same THEN "deleteLog"
                                       ELSE IF noget \/ raised THEN "done" ELSE "update_one"]
  /\ UNCHANGED coll

UpdateOneWrite(s) ==
  /\ inv[s].h = "updateOne" /\ inv[s].pc = "update_one"
  /\ LET id == FindOne(coll, inv[s].sid).id
         w == Write(inv[s].field :> inv[s].newv, {}, TRUE, inv[s].ulog, <<>>)
         n == ModifiedCount(coll, id, w)
     IN /\ coll' = IF id = 0 THEN coll ELSE UpdateStore(coll, id, w)
        /\ inv' = [inv EXCEPT ![s].pc = IF n > 0 THEN "done" ELSE "deleteLog",
                              ![s].out = IF n > 0 THEN "updated" ELSE "no_changes"]
  /\ UNCHANGED <<log_details, nextId>>

(***************************************************************************)
(* update_value.updateAll                                                  *)
(***************************************************************************)
\* One queued UpdateOne({"_id": id}, w) of a bulk_write
Op(id, w) == [id |-> id, w |-> w]

RECURSIVE BulkStore(_, _)
BulkStore(c, bulk) ==
  IF bulk = <<>> THEN c ELSE BulkStore(UpdateStore(c, Head(bulk).id, Head(bulk).w), Tail(bulk))

RECURSIVE BulkModified(_, _)
BulkModified(c, bulk) ==
  IF bulk = <<>> THEN 0
  ELSE ModifiedCount(c, Head(bulk).id, Head(bulk).w)
       + BulkModified(UpdateStore(c, Head(bulk).id, Head(bulk).w), Tail(bulk))

\* Variant: every document is queued, whatever its value
RECURSIVE UpdateAllBulkEvery(_, _, _, _)
UpdateAllBulkEvery(docs, pid, field, newv) ==
  IF docs = <<>> THEN {<<>>}
  ELSE LET doc == Head(docs)
           cur == Get(doc.f, field)
       IN {<<Op(doc.id, Write(field :> newv, {}, TRUE, ulog, <<>>))>> \o r :
             ulog \in UpdateLog(doc, pid, TagUpdateAll, field, cur, newv),
             r \in UpdateAllBulkEvery(Tail(docs), pid, field, newv)}

\* The loop of updateAll over the documents read: the bulk_updates it may build
RECURSIVE UpdateAllBulk(_, _, _, _)
UpdateAllBulk(docs, pid, field, newv) ==
  IF docs = <<>> THEN {<<>>}
  ELSE LET doc == Head(docs)
           cur == IF WalkRaises(doc, field) THEN Null ELSE WalkGet(doc, field)
           rest == UpdateAllBulk(Tail(docs), pid, field, newv)
       IN IF ~IsNone(cur) /\ cur = newv THEN rest
          ELSE {<<Op(doc.id, Write(field :> newv, {}, TRUE, ulog, <<>>))>> \o r :
                  ulog \in UpdateLog(doc, pid, TagUpdateAll, field, cur, newv), r \in rest}

UpdateAllInsertLog(s, field, raw) ==
  /\ CanStart(s)
  /\ InsertLog(s)
  /\ inv' = [inv EXCEPT ![s] =
       [Begin("updateAll", "find") EXCEPT !.pid = nextId, !.field = field, !.newv = Normalize(raw)]]
  /\ UNCHANGED coll

\* updateLog raises for one of the documents the loop would queue
UpdateAllRaises(docs, field, newv) ==
  \E i \in DOMAIN docs :
    /\ ~WalkRaises(docs[i], field)
    /\ LET cur == WalkGet(docs[i], field)
       IN ~(~IsNone(cur) /\ cur = newv) /\ UpdateLogRaises(cur, newv)

UpdateAllFind(s) ==
  /\ inv[s].h = "updateAll" /\ inv[s].pc = "find"
  /\ LET noget == \E i \in DOMAIN coll : WalkRaises(coll[i], inv[s].field)
         raised == noget \/ UpdateAllRaises(coll, inv[s].field, inv[s].newv)
     IN
     \E bulk \in UpdateAllBulk(coll, inv[s].pid, inv[s].field, inv[s].newv) :
       inv' = [inv EXCEPT ![s].docs = coll, ![s].bulk = IF raised THEN <<>> ELSE bulk,
                          ![s].out = IF noget THEN "AttributeError"
                                     ELSE IF raised THEN "TypeError"
                                     ELSE IF bulk = <<>> THEN "up_to_date" ELSE "",
                          ![s].pc = IF raised THEN "done"
                                    ELSE IF bulk = <<>> THEN "deleteLog" ELSE "bulk_write"]
  /\ UNCHANGED <<coll, log_details, nextId>>

UpdateAllBulkWrite(s) ==
  /\ inv[s].h = "updateAll" /\ inv[s].pc = "bulk_write"
  /\ coll' = BulkStore(coll, inv[s].bulk)
  /\ LET n == BulkModified(coll, inv[s].bulk) IN
     inv' = [inv EXCEPT ![s].cnt = n,
                        ![s].out = IF n > 0 THEN "updated" ELSE "no_changes",
                        ![s].pc = IF n > 0 THEN "done" ELSE "deleteLog"]
  /\ UNCHANGED <<log_details, nextId>>

(***************************************************************************)
(* restore_value.restoreOne / restoreAll                                   *)
(***************************************************************************)
\* Index of the first entry of logs carrying log_id, 0 when there is none
TargetLogIndex(logs, log_id) ==
  IF \E i \in DOMAIN logs : logs[i].log_id = log_id
  THEN CHOOSE i \in DOMAIN logs : logs[i].log_id = log_id /\ \A j \in DOMAIN logs : logs[j].log_id = log_id => i <= j
  ELSE 0

\* Variant: the operation of the target entry is not validated
RestorableAny(op) == TRUE

\* log_operation.startswith("update") or log_operation.startswith("restore")
Restorable(op) == StartsWith(op, "update") \/ StartsWith(op, "restore")

\* next((mf for mf in log.get("modified_fields", []) if mf.get("field") == field_name), None)
FieldEntry(e, field) ==
  LET mfs == IF e.shape = "multi" THEN e.modified_fields ELSE <<>>
      hits == {i \in DOMAIN mfs : mfs[i].field = field}
  IN IF hits = {} THEN <<>> ELSE <<mfs[CHOOSE i \in hits : \A j \in hits : i <= j]>>

\* Reverse the change: remove added, re-add removed
InverseTransform(value, added, removed) == Without(value, added) \o removed

\* One pass of the replay loop over one log entry
ReverseEntry(e, field, value) ==
  LET fe == FieldEntry(e, field)
  IN IF fe = <<>> THEN value ELSE InverseTransform(value, fe[1].added, fe[1].removed)

\* for log in logs: if log.get("log_id") == log_id: break; ...
RECURSIVE ReplayLogs(_, _, _, _)
ReplayLogs(logs, log_id, field, value) ==
  IF logs = <<>> THEN value
  ELSE IF Head(logs).log_id = log_id THEN value
  ELSE ReplayLogs(Tail(logs), log_id, field, ReverseEntry(Head(logs), field, value))

\* Variant: the result is always written as a list
CollapseNever(cur, r) == List(r)

\* restored_value of a document: the replay, then the conversion back to a
\* scalar when the current value was not a list
\* Convert back to original type if it was not a list
Collapse(cur, r) ==
  IF ~IsList(cur) /\ Len(r) <= 1
  THEN (IF r = <<>> \/ r = <<"<None>">> THEN Null ELSE Scalar(r[1]))
  ELSE List(r)

RestoredValue(doc, field, log_id) ==
  LET cur == Get(doc.f, field)
  IN Collapse(cur, ReplayLogs(doc.log, log_id, field, NewList(cur)))

\* Variant: an unchanged value is written all the same
RestoreOutcomeAlways(doc, field, log_id) ==
  LET t == TargetLogIndex(doc.log, log_id)
  IN IF t = 0 THEN "log_id_not_found"
     ELSE IF ~Restorable(doc.log[t].operation) THEN "not_restorable"
     ELSE "restore"

\* What restore decides for one document read
RestoreOutcome(doc, field, log_id) ==
  LET t == TargetLogIndex(doc.log, log_id)
  IN IF t = 0 THEN "log_id_not_found"
     ELSE IF ~Restorable(doc.log[t].operation) THEN "not_restorable"
     ELSE IF RestoredValue(doc, field, log_id) = Get(doc.f, field) THEN "same"
     ELSE "restore"

RestoreOneFind(s, sid, field, log_id) ==
  /\ CanStart(s)
  /\ LET doc == FindOne(coll, sid) IN
     inv' = [inv EXCEPT ![s] =
       [Begin("restoreOne", IF doc = NoDoc THEN "done" ELSE "insertLog") EXCEPT
          !.out = IF doc = NoDoc THEN "not_found" ELSE "",
          !.sid = sid, !.field = field, !.log_id = log_id, !.doc = doc]]
  /\ UNCHANGED <<coll, log_details, nextId>>

RestoreOneInsertLog(s) ==
  /\ inv[s].h = "restoreOne" /\ inv[s].pc = "insertLog"
  /\ InsertLog(s)
  /\ LET doc == inv[s].doc
         cur == Get(doc.f, inv[s].field)
         o == RestoreOutcome(doc, inv[s].field, inv[s].log_id)
         new == RestoredValue(doc, inv[s].field, inv[s].log_id)
         raised == o = "restore" /\ UpdateLogRaises(cur, new)
     IN \E ulog \in UpdateLog(doc, nextId, TagRestoreOne, inv[s].field, cur, new) :
          inv' = [inv EXCEPT ![s].pid = nextId, ![s].cur = cur,
                             ![s].out = IF raised THEN "TypeError"
                                        ELSE IF o = "restore" THEN "" ELSE o,
                             ![s].newv = IF o = "restore" THEN new ELSE Null,
                             ![s].ulog = IF o = "restore" /\ ~raised THEN ulog ELSE <<>>,
                             ![s].pc = IF raised THEN "done"
                                       ELSE IF o = "restore" THEN "update_one" ELSE "deleteLog"]
  /\ UNCHANGED coll

RestoreOneWrite(s) ==
  /\ inv[s].h = "restoreOne" /\ inv[s].pc = "update_one"
  /\ LET id == FindOne(coll, inv[s].sid).id
         w == Write(inv[s].field :> inv[s].newv, {}, TRUE, inv[s].ulog, <<>>)
         n == ModifiedCount(coll, id, w)
     IN /\ coll' = IF id = 0 THEN coll ELSE UpdateStore(coll, id, w)
        /\ inv' = [inv EXCEPT ![s].pc = "done",
                              ![s].out = IF n > 0 THEN "restored" ELSE "no_changes"]
  /\ UNCHANGED <<log_details, nextId>>

RestoreAllInsertLog(s, field, log_id) ==
  /\ CanStart(s)
  /\ InsertLog(s)
  /\ inv' = [inv EXCEPT ![s] =
       [Begin("restoreAll", "find") EXCEPT !.pid = nextId, !.field = field, !.log_id = log_id]]
  /\ UNCHANGED coll

\* Variant: the Process Record is kept whatever the count
AfterLoopKeep(i, n, cnt) == IF i < n THEN "loop" ELSE "done"

\* pc after the loop body of a batch handler for document/row i of n
AfterLoop(i, n, cnt) == IF i < n THEN "loop" ELSE IF cnt = 0 THEN "deleteLog" ELSE "done"

RestoreAllFind(s) ==
  /\ inv[s].h = "restoreAll" /\ inv[s].pc = "find"
  /\ inv' = [inv EXCEPT ![s].docs = coll, ![s].i = 0, ![s].pc = AfterLoop(0, Len(coll), 0)]
  /\ UNCHANGED <<coll, log_details, nextId>>

\* One iteration of `for doc in collection.find()`
RestoreAllDoc(s) ==
  /\ inv[s].h = "restoreAll" /\ inv[s].pc = "loop"
  /\ LET i == inv[s].i + 1
         doc == inv[s].docs[i]
         cur == Get(doc.f, inv[s].field)
         o == RestoreOutcome(doc, inv[s].field, inv[s].log_id)
         new == RestoredValue(doc, inv[s].field, inv[s].log_id)
         raised == o = "restore" /\ UpdateLogRaises(cur, new)
     IN \E ulog \in UpdateLog(doc, inv[s].pid, TagRestoreAll, inv[s].field, cur, new) :
          LET w == Write(inv[s].field :> new, {}, TRUE, ulog, <<>>)
              n == IF o = "restore" /\ ~raised THEN ModifiedCount(coll, doc.id, w) ELSE 0
          IN /\ coll' = IF o = "restore" /\ ~raised THEN UpdateStore(coll, doc.id, w) ELSE coll
             /\ inv' = [inv EXCEPT ![s].i = i, ![s].cnt = @ + n,
                          ![s].out = IF raised THEN "TypeError"
                                     ELSE IF inv[s].cnt + n = 0 THEN "no_changes" ELSE "restored",
                          ![s].pc = IF raised THEN "done"
                                    ELSE AfterLoop(i, Len(inv[s].docs), inv[s].cnt + n)]
  /\ UNCHANGED <<log_details, nextId>>

(***************************************************************************)
(* remove_field.removeOne / removeAll                                      *)
(***************************************************************************)
\* The walk along remove_field / rename_field: `key not in current`
\* Variant: every path a document can hold counts as present
HasFieldLoose(doc, field) == field \in Paths

HasField(doc, field) ==
  IF Parent(field) = "" THEN doc.f[field].k # "absent"
  ELSE /\ doc.f[Parent(field)].k = "dict"
       /\ field \in Paths
       /\ doc.f[field].k # "absent"

\* Variant: the descriptor names the field without the value it held
RemoveLogNoValue(doc, pid, field) ==
  Prepend(Entry(pid, TagRemove, "multi", "", FALSE, <<>>, <<>>,
                <<Desc(field, <<>>, <<>>, "")>>), doc.log)

\* "removed": previous_value if isinstance(previous_value, list)
\*            else [previous_value]
RemoveLog(doc, pid, field) ==
  LET v == doc.f[field]
      removed == IF IsNone(v) THEN <<"<None>">> ELSE v.v
  IN Prepend(Entry(pid, TagRemove, "multi", "", FALSE, <<>>, <<>>,
                   <<Desc(field, <<>>, removed, "")>>), doc.log)

RemoveWrite(doc, pid, field) == Write(<<>>, {field}, TRUE, RemoveLog(doc, pid, field), <<>>)

RemoveOneInsertLog(s, sid, field) ==
  /\ CanStart(s)
  /\ InsertLog(s)
  /\ inv' = [inv EXCEPT ![s] =
       [Begin("removeOne", "find") EXCEPT !.pid = nextId, !.sid = sid, !.field = field]]
  /\ UNCHANGED coll

RemoveOneFind(s) ==
  /\ inv[s].h = "removeOne" /\ inv[s].pc = "find"
  /\ LET doc == FindOne(coll, inv[s].sid)
         o == IF doc = NoDoc THEN "not_found"
              ELSE IF ~HasField(doc, inv[s].field) THEN "field_not_found" ELSE ""
     IN inv' = [inv EXCEPT ![s].doc = doc, ![s].out = o,
                           ![s].pc = IF o = "" THEN "update_one" ELSE "deleteLog"]
  /\ UNCHANGED <<coll, log_details, nextId>>

RemoveOneWrite(s) ==
  /\ inv[s].h = "removeOne" /\ inv[s].pc = "update_one"
  /\ LET w == RemoveWrite(inv[s].doc, inv[s].pid, inv[s].field)
         n == ModifiedCount(coll, inv[s].doc.id, w)
     IN /\ coll' = UpdateStore(coll, inv[s].doc.id, w)
        /\ inv' = [inv EXCEPT ![s].pc = IF n > 0 THEN "done" ELSE "deleteLog",
                              ![s].out = IF n > 0 THEN "removed" ELSE "no_changes"]
  /\ UNCHANGED <<log_details, nextId>>

RECURSIVE RemoveAllBulk(_, _, _)
RemoveAllBulk(docs, pid, field) ==
  IF docs = <<>> THEN <<>>
  ELSE (IF HasField(Head(docs), field)
        THEN <<Op(Head(docs).id, RemoveWrite(Head(docs), pid, field))>> ELSE <<>>)
       \o RemoveAllBulk(Tail(docs), pid, field)

RemoveAllInsertLog(s, field) ==
  /\ CanStart(s)
  /\ InsertLog(s)
  /\ inv' = [inv EXCEPT ![s] = [Begin("removeAll", "find") EXCEPT !.pid = nextId, !.field = field]]
  /\ UNCHANGED coll

RemoveAllFind(s) ==
  /\ inv[s].h = "removeAll" /\ inv[s].pc = "find"
  /\ LET bulk == RemoveAllBulk(coll, inv[s].pid, inv[s].field) IN
     inv' = [inv EXCEPT ![s].docs = coll, ![s].bulk = bulk,
                        ![s].out = IF bulk = <<>> THEN "no_changes" ELSE "",
                        ![s].pc = IF bulk = <<>> THEN "deleteLog" ELSE "bulk_write"]
  /\ UNCHANGED <<coll, log_details, nextId>>

\* updated_count = result.modified_count or len(bulk_updates)
CountOrLen(n, bulk) == IF n # 0 THEN n ELSE Len(bulk)

RemoveAllBulkWrite(s) ==
  /\ inv[s].h = "removeAll" /\ inv[s].pc = "bulk_write"
  /\ coll' = BulkStore(coll, inv[s].bulk)
  /\ LET n == CountOrLen(BulkModified(coll, inv[s].bulk), inv[s].bulk) IN
     inv' = [inv EXCEPT ![s].cnt = n,
                        ![s].out = IF n = 0 THEN "no_changes" ELSE "removed",
                        ![s].pc = IF n = 0 THEN "deleteLog" ELSE "done"]
  /\ UNCHANGED <<log_details, nextId>>

(***************************************************************************)
(* rename_field.renameOne / renameAll                                      *)
(***************************************************************************)
RenameLog(doc, pid, field, new_field) ==
  Prepend(Entry(pid, TagRename, "multi", "", FALSE, <<>>, <<>>,
                <<Desc(field, <<>>, <<>>, new_field)>>), doc.log)

\* Variant: the old path is not unset
RenameWriteKeep(doc, pid, field, new_field) ==
  Write(new_field :> doc.f[field], {}, TRUE, RenameLog(doc, pid, field, new_field), <<>>)

\* {"$set": {new_field_name: value, "log": existing_log}, "$unset": {rename_field: ""}}
RenameWrite(doc, pid, field, new_field) ==
  Write(new_field :> doc.f[field], {field}, TRUE, RenameLog(doc, pid, field, new_field), <<>>)

RenameOneInsertLog(s, sid, field, new_field) ==
  /\ CanStart(s)
  /\ field # new_field
  /\ InsertLog(s)
  /\ inv' = [inv EXCEPT ![s] =
       [Begin("renameOne", "find") EXCEPT !.pid = nextId, !.sid = sid, !.field = field,
                                          !.field2 = new_field]]
  /\ UNCHANGED coll

RenameOneFind(s) ==
  /\ inv[s].h = "renameOne" /\ inv[s].pc = "find"
  /\ LET doc == FindOne(coll, inv[s].sid)
         o == IF doc = NoDoc THEN "not_found"
              ELSE IF ~HasField(doc, inv[s].field) THEN "field_not_found" ELSE ""
     IN inv' = [inv EXCEPT ![s].doc = doc, ![s].out = o,
                           ![s].pc = IF o = "" THEN "update_one" ELSE "deleteLog"]
  /\ UNCHANGED <<coll, log_details, nextId>>

RenameOneWrite(s) ==
  /\ inv[s].h = "renameOne" /\ inv[s].pc = "update_one"
  /\ LET w == RenameWrite(inv[s].doc, inv[s].pid, inv[s].field, inv[s].field2)
         n == ModifiedCount(coll, inv[s].doc.id, w)
     IN /\ coll' = UpdateStore(coll, inv[s].doc.id, w)
        /\ inv' = [inv EXCEPT ![s].pc = IF n > 0 THEN "done" ELSE "deleteLog",
                              ![s].out = IF n > 0 THEN "renamed" ELSE "no_changes"]
  /\ UNCHANGED <<log_details, nextId>>

RECURSIVE RenameAllBulk(_, _, _, _)
RenameAllBulk(docs, pid, field, new_field) ==
  IF docs = <<>> THEN <<>>
  ELSE (IF HasField(Head(docs), field)
        THEN <<Op(Head(docs).id, RenameWrite(Head(docs), pid, field, new_field))>> ELSE <<>>)
       \o RenameAllBulk(Tail(docs), pid, field, new_field)

RenameAllInsertLog(s, field, new_field) ==
  /\ CanStart(s)
  /\ field # new_field
  /\ InsertLog(s)
  /\ inv' = [inv EXCEPT ![s] =
       [Begin("renameAll", "find") EXCEPT !.pid = nextId, !.field = field, !.field2 = new_field]]
  /\ UNCHANGED coll

RenameAllFind(s) ==
  /\ inv[s].h = "renameAll" /\ inv[s].pc = "find"
  /\ LET bulk == RenameAllBulk(coll, inv[s].pid, inv[s].field, inv[s].field2) IN
     inv' = [inv EXCEPT ![s].docs = coll, ![s].bulk = bulk,
                        ![s].out = IF bulk = <<>> THEN "no_changes" ELSE "",
                        ![s].pc = IF bulk = <<>> THEN "deleteLog" ELSE "bulk_write"]
  /\ UNCHANGED <<coll, log_details, nextId>>

RenameAllBulkWrite(s) ==
  /\ inv[s].h = "renameAll" /\ inv[s].pc = "bulk_write"
  /\ coll' = BulkStore(coll, inv[s].bulk)
  /\ LET n == CountOrLen(BulkModified(coll, inv[s].bulk), inv[s].bulk) IN
     inv' = [inv EXCEPT ![s].cnt = n,
                        ![s].out = IF n = 0 THEN "no_changes" ELSE "renamed",
                        ![s].pc = IF n = 0 THEN "deleteLog" ELSE "done"]
  /\ UNCHANGED <<log_details, nextId>>

(***************************************************************************)
(* log_functions.diffLogEntry.  flatten_dict gives the paths that hold no  *)
(* mapping: a mapping is replaced by the paths below it.                   *)
(***************************************************************************)
\* flat.get(key, "Non-existing")
FlatGet(doc, key) == IF doc.f[key].k \in {"absent", "dict"} THEN NonExisting ELSE doc.f[key]

\* old_value if isinstance(old_value, list) else [old_value]
AsList(v) == IF IsList(v) THEN v.v ELSE IF IsNone(v) THEN <<"<None>">> ELSE v.v

\* key.startswith(prefix) for the keys of the model
KeyStartsWith(key, prefix) ==
  CASE prefix = "log" -> key \in {"log", "logbook"}
    [] prefix = "_id" -> key = "_id"
    [] OTHER -> key = prefix

\* key.startswith("_id") or key.startswith("log")
ExcludedKey(key) == KeyStartsWith(key, "_id") \/ KeyStartsWith(key, "log")

\* The descriptors diffLogEntry may append for one key (none: the empty set)
DiffKey(old_doc, new_doc, key) ==
  LET ov == FlatGet(old_doc, key)
      nv == FlatGet(new_doc, key)
  IN IF ov = NonExisting \/ nv = NonExisting THEN {Desc(key, <<>>, <<>>, "")}
     ELSE IF IsList(ov) /\ IsList(nv) /\ ov.v \o nv.v = <<>> THEN {}
     ELSE IF ov # nv
          THEN {Desc(key, a, r, "") : a \in Orders(Range(AsList(nv)) \ Range(AsList(ov))),
                                      r \in Orders(Range(AsList(ov)) \ Range(AsList(nv)))}
          ELSE {}

\* all_keys without the excluded ones and without the keys that yield nothing
DiffKeys(old_doc, new_doc) ==
  {key \in Paths : /\ (FlatGet(old_doc, key) # NonExisting \/ FlatGet(new_doc, key) # NonExisting)
                    /\ ~ExcludedKey(key)
                    /\ DiffKey(old_doc, new_doc, key) # {}}

\* The modified_fields lists diffLogEntry may build: the keys in the order the
\* set all_keys is iterated
DiffModifiedFields(old_doc, new_doc) ==
  LET keys == DiffKeys(old_doc, new_doc)
      n == Cardinality(keys)
      descs == UNION {DiffKey(old_doc, new_doc, key) : key \in keys}
  IN {mfs \in [1..n -> descs] :
        \E o \in Orders(keys) : \A i \in 1..n : mfs[i] \in DiffKey(old_doc, new_doc, o[i])}

MultiEntry(pid, op, mfs) == Entry(pid, op, "multi", "", FALSE, <<>>, <<>>, mfs)

DiffLogEntry(old_doc, new_doc, pid, op) ==
  {MultiEntry(pid, op, mfs) : mfs \in DiffModifiedFields(old_doc, new_doc)}

(***************************************************************************)
(* update_value.updateFile, one CSV file                                   *)
(***************************************************************************)
\* A cell is nan, a bool or a text (its ';'-separated pieces)
\* The value a CSV cell is stored as
CsvValue(cell) ==
  IF cell.t = "nan" THEN Null
  ELSE IF cell.t = "bool" THEN Scalar(cell.pieces[1])
  ELSE IF Len(cell.pieces) > 1 THEN List(cell.pieces) ELSE Scalar(cell.pieces[1])

\* flat_updates / new_values of a row
CsvUpdates(file, row) ==
  [k \in Range(file.update_fields) |-> CsvValue(row.cells[k])]

\* the row's matching value as a stable_id ("" matches nothing)
CsvMatch(row) == IF row.match.t = "nan" THEN "" ELSE row.match.pieces[1]

\* [{"field": f} for f in update_fields if f != "log"]
RECURSIVE FieldMarkers(_)
FieldMarkers(fields) ==
  IF fields = <<>> THEN <<>>
  ELSE (IF Head(fields) = "log" THEN <<>> ELSE <<Desc(Head(fields), <<>>, <<>>, "")>>)
       \o FieldMarkers(Tail(fields))

\* collection.insert_one(doc): the document gets the next _id
InsertStore(c, sid, f, log) == Append(c, [id |-> Len(c) + 1, sid |-> sid, f |-> f, log |-> log])

Row(s) == inv[s].file.rows[inv[s].i]

UpdateFileCsvInsertLog(s, file) ==
  /\ CanStart(s)
  /\ InsertLog(s)
  /\ inv' = [inv EXCEPT ![s] =
       [Begin("updateFileCsv", AfterLoop(0, Len(file.rows), 0)) EXCEPT !.pid = nextId, !.file = file]]
  /\ UNCHANGED coll

\* previous_document = collection.find_one(update_criteria), then the NaN test
UpdateFileCsvFind(s) ==
  /\ inv[s].h = "updateFileCsv" /\ inv[s].pc = "loop"
  /\ LET i == inv[s].i + 1
         row == inv[s].file.rows[i]
         doc == FindOne(coll, CsvMatch(row))
     IN inv' = [inv EXCEPT ![s].i = i, ![s].doc = doc, ![s].sid = CsvMatch(row),
                  ![s].pc = IF row.match.t = "nan"
                            THEN AfterLoop(i, Len(inv[s].file.rows), inv[s].cnt)
                            ELSE IF doc # NoDoc THEN "set" ELSE "insert_one"]
  /\ UNCHANGED <<coll, log_details, nextId>>

\* collection.update_one(update_criteria, {"$set": flat_updates})
UpdateFileCsvSet(s) ==
  /\ inv[s].h = "updateFileCsv" /\ inv[s].pc = "set"
  /\ LET id == FindOne(coll, inv[s].sid).id
         w == Write(CsvUpdates(inv[s].file, Row(s)), {}, FALSE, <<>>, <<>>)
     IN coll' = IF id = 0 THEN coll ELSE UpdateStore(coll, id, w)
  /\ inv' = [inv EXCEPT ![s].pc = "find_updated"]
  /\ UNCHANGED <<log_details, nextId>>

\* updated_doc = collection.find_one(update_criteria); diffLogEntry
UpdateFileCsvFindUpdated(s) ==
  /\ inv[s].h = "updateFileCsv" /\ inv[s].pc = "find_updated"
  /\ \E e \in DiffLogEntry(inv[s].doc, FindOne(coll, inv[s].sid), inv[s].pid, TagUpdateFile) :
       inv' = [inv EXCEPT ![s].ulog = <<e>>,
                 ![s].pc = IF e.modified_fields # <<>> THEN "push"
                           ELSE AfterLoop(inv[s].i, Len(inv[s].file.rows), inv[s].cnt)]
  /\ UNCHANGED <<coll, log_details, nextId>>

\* collection.update_one(update_criteria, {"$push": {"log": {"$each": [log_entry], "$position": 0}}})
UpdateFileCsvPush(s) ==
  /\ inv[s].h = "updateFileCsv" /\ inv[s].pc = "push"
  /\ LET id == FindOne(coll, inv[s].sid).id
         w == Write(<<>>, {}, FALSE, <<>>, inv[s].ulog)
         cnt == inv[s].cnt + Len(inv[s].ulog[1].modified_fields)
     IN /\ coll' = IF id = 0 THEN coll ELSE UpdateStore(coll, id, w)
        /\ inv' = [inv EXCEPT ![s].cnt = cnt, ![s].out = "updated",
                     ![s].pc = AfterLoop(inv[s].i, Len(inv[s].file.rows), cnt)]
  /\ UNCHANGED <<log_details, nextId>>

\* The row matches no document: collection.insert_one(new_doc)
UpdateFileCsvInsert(s) ==
  /\ inv[s].h = "updateFileCsv" /\ inv[s].pc = "insert_one"
  /\ LET ups == CsvUpdates(inv[s].file, Row(s))
         f == Flds(ups)
         e == MultiEntry(inv[s].pid, TagUpdateFile, FieldMarkers(inv[s].file.update_fields))
         cnt == inv[s].cnt + Len(inv[s].file.update_fields)
     IN /\ coll' = InsertStore(coll, inv[s].sid, f, <<e>>)
        /\ inv' = [inv EXCEPT ![s].cnt = cnt, ![s].out = "updated",
                     ![s].pc = AfterLoop(inv[s].i, Len(inv[s].file.rows), cnt)]
  /\ UNCHANGED <<log_details, nextId>>

(***************************************************************************)
(* update_value.updateFile, one JSON file                                  *)
(***************************************************************************)
\* The order of the keys of a JSON document
FieldOrder == <<"tags", "name", "info", "logbook">>

\* The top-level keys of a document other than stable_id and log
PresentFields(f) == {k \in Paths : Parent(k) = "" /\ f[k].k # "absent"}

\* updates: every field of update_doc but stable_id and log
JsonUpdates(d) == [k \in {p \in Paths : TopKey(p) \in PresentFields(d.f)} |-> d.f[k]]

RECURSIVE MarkersOf(_, _)
MarkersOf(order, f) ==
  IF order = <<>> THEN <<>>
  ELSE (IF f[Head(order)].k # "absent" THEN <<Desc(Head(order), <<>>, <<>>, "")>> ELSE <<>>)
       \o MarkersOf(Tail(order), f)

\* pc after a JSON document: updates_made_json may be negative
AfterJson(i, n, cnt) == IF i < n THEN "loop" ELSE IF cnt > 0 THEN "done" ELSE "deleteLog"

JDoc(s) == inv[s].file[inv[s].i]

UpdateFileJsonInsertLog(s, file) ==
  /\ CanStart(s)
  /\ InsertLog(s)
  /\ inv' = [inv EXCEPT ![s] =
       [Begin("updateFileJson", AfterJson(0, Len(file), 0)) EXCEPT !.pid = nextId, !.file = file]]
  /\ UNCHANGED coll

\* The stable_id test, then old_doc = collection.find_one(query)
UpdateFileJsonFind(s) ==
  /\ inv[s].h = "updateFileJson" /\ inv[s].pc = "loop"
  /\ LET i == inv[s].i + 1
         d == inv[s].file[i]
         doc == FindOne(coll, d.sid)
         next == AfterJson(i, Len(inv[s].file), inv[s].cnt)
     IN inv' = [inv EXCEPT ![s].i = i,
                  ![s].doc = IF d.has_sid THEN doc ELSE NoDoc,
                  ![s].sid = IF d.has_sid THEN d.sid ELSE "",
                  ![s].pc = IF ~d.has_sid THEN next
                            ELSE IF doc = NoDoc THEN "insert_one"
                            ELSE IF PresentFields(d.f) = {} THEN next
                            ELSE "set"]
  /\ UNCHANGED <<coll, log_details, nextId>>

\* collection.update_one(query, {"$set": updates})
UpdateFileJsonSet(s) ==
  /\ inv[s].h = "updateFileJson" /\ inv[s].pc = "set"
  /\ LET id == FindOne(coll, inv[s].sid).id
         w == Write(JsonUpdates(JDoc(s)), {}, FALSE, <<>>, <<>>)
     IN coll' = IF id = 0 THEN coll ELSE UpdateStore(coll, id, w)
  /\ inv' = [inv EXCEPT ![s].pc = "find_updated"]
  /\ UNCHANGED <<log_details, nextId>>

\* new_doc = collection.find_one(query); diffLogEntry
UpdateFileJsonFindUpdated(s) ==
  /\ inv[s].h = "updateFileJson" /\ inv[s].pc = "find_updated"
  /\ \E e \in DiffLogEntry(inv[s].doc, FindOne(coll, inv[s].sid), inv[s].pid, TagUpdateFile) :
       inv' = [inv EXCEPT ![s].ulog = <<e>>,
                 ![s].pc = IF e.modified_fields # <<>> THEN "push"
                           ELSE AfterJson(inv[s].i, Len(inv[s].file), inv[s].cnt)]
  /\ UNCHANGED <<coll, log_details, nextId>>

UpdateFileJsonPush(s) ==
  /\ inv[s].h = "updateFileJson" /\ inv[s].pc = "push"
  /\ LET id == FindOne(coll, inv[s].sid).id
         w == Write(<<>>, {}, FALSE, <<>>, inv[s].ulog)
         cnt == inv[s].cnt + Len(inv[s].ulog[1].modified_fields)
     IN /\ coll' = IF id = 0 THEN coll ELSE UpdateStore(coll, id, w)
        /\ inv' = [inv EXCEPT ![s].cnt = cnt, ![s].out = "updated",
                     ![s].pc = AfterJson(inv[s].i, Len(inv[s].file), cnt)]
  /\ UNCHANGED <<log_details, nextId>>

UpdateFileJsonInsert(s) ==
  /\ inv[s].h = "updateFileJson" /\ inv[s].pc = "insert_one"
  \* updates_made_json += len(new_doc) - 3 after collection.insert_one(new_doc):
  \* new_doc holds stable_id, the fields, log and the _id insert_one adds
  /\ LET d == JDoc(s)
         e == MultiEntry(inv[s].pid, TagUpdateFile, MarkersOf(FieldOrder, d.f))
         cnt == inv[s].cnt + ((1 + Cardinality(PresentFields(d.f)) + 1 + 1) - 3)
     IN /\ coll' = InsertStore(coll, d.sid, d.f, <<e>>)
        /\ inv' = [inv EXCEPT ![s].cnt = cnt, ![s].out = "updated",
                     ![s].pc = AfterJson(inv[s].i, Len(inv[s].file), cnt)]
  /\ UNCHANGED <<log_details, nextId>>

(***************************************************************************)
(* insert.insertDocuments, one JSON file                                   *)
(***************************************************************************)
\* existing_docs = {doc['stable_id']: doc for doc in cursor}: the last
\* stored document of each stable_id of the file
Existing(c, sid) ==
  IF \E i \in DOMAIN c : c[i].sid = sid
  THEN c[CHOOSE i \in DOMAIN c : c[i].sid = sid /\ \A j \in DOMAIN c : c[j].sid = sid => j <= i]
  ELSE NoDoc

\* merged_doc = existing.copy(); merged_doc.update(doc)
Merged(existing, d) ==
  [k \in {p \in Paths : TopKey(p) \in PresentFields(existing.f) \cup PresentFields(d.f)} |->
     IF TopKey(k) \in PresentFields(d.f) THEN d.f[k] ELSE existing.f[k]]

OverwriteLog(existing, pid) ==
  Prepend(Entry(pid, TagInsertOverwrite, "bare", "", FALSE, <<>>, <<>>, <<>>), existing.log)

InsertDocumentsInsertLog(s, file) ==
  /\ CanStart(s)
  /\ InsertLog(s)
  /\ inv' = [inv EXCEPT ![s] = [Begin("insertDocuments", "find") EXCEPT !.pid = nextId, !.file = file]]
  /\ UNCHANGED coll

\* unique_ids = [doc['stable_id'] ...] (KeyError without the key), then the find
InsertDocumentsFind(s) ==
  /\ inv[s].h = "insertDocuments" /\ inv[s].pc = "find"
  /\ LET raised == \E i \in DOMAIN inv[s].file : ~inv[s].file[i].has_sid IN
     inv' = [inv EXCEPT ![s].docs = coll, ![s].i = 0, ![s].bulk = <<>>,
               ![s].out = IF raised THEN "KeyError" ELSE "",
               ![s].pc = IF raised THEN "done" ELSE "loop"]
  /\ UNCHANGED <<coll, log_details, nextId>>

\* pc after document i of the file: new documents are inserted after the loop
AfterInsertLoop(i, n, new_documents) ==
  IF i < n THEN "loop" ELSE IF new_documents # <<>> THEN "insert_many" ELSE "done"

\* One iteration of `for doc in documents`
InsertDocumentsDoc(s) ==
  /\ inv[s].h = "insertDocuments" /\ inv[s].pc = "loop"
  /\ LET i == inv[s].i + 1
         d == inv[s].file[i]
         existing == Existing(inv[s].docs, d.sid)
         identical == existing.f = d.f
         log == OverwriteLog(existing, inv[s].pid)
         new_documents == IF existing = NoDoc THEN Append(inv[s].bulk, d) ELSE inv[s].bulk
     IN /\ coll' = IF existing # NoDoc /\ ~identical
                   THEN UpdateStore(coll, existing.id, Write(Merged(existing, d), {}, TRUE, log, <<>>))
                   ELSE coll
        /\ inv' = [inv EXCEPT ![s].i = i, ![s].bulk = new_documents,
                     ![s].docs = IF existing # NoDoc /\ ~identical
                                 THEN [inv[s].docs EXCEPT ![existing.id].log = log] ELSE @,
                     ![s].cnt = IF existing # NoDoc /\ ~identical THEN @ + 1 ELSE @,
                     ![s].pc = AfterInsertLoop(i, Len(inv[s].file), new_documents)]
  /\ UNCHANGED <<log_details, nextId>>

RECURSIVE InsertMany(_, _)
InsertMany(c, ds) ==
  IF ds = <<>> THEN c ELSE InsertMany(InsertStore(c, Head(ds).sid, Head(ds).f, <<>>), Tail(ds))

\* result = collection.insert_many(chunk)
InsertDocumentsInsertMany(s) ==
  /\ inv[s].h = "insertDocuments" /\ inv[s].pc = "insert_many"
  /\ coll' = InsertMany(coll, inv[s].bulk)
  /\ inv' = [inv EXCEPT ![s].pc = "bulk_write", ![s].cnt = @ + Len(inv[s].bulk),
               ![s].ulog = [j \in 1..Len(inv[s].bulk) |-> Len(coll) + j]]
  /\ UNCHANGED <<log_details, nextId>>

\* UpdateOne({'_id': doc_id}, {'$set': {'log': [new_log_entry]}}) for each inserted id
InsertedLogBulk(ids, pid) ==
  [j \in DOMAIN ids |->
     Op(ids[j], Write(<<>>, {}, TRUE, <<Entry(pid, TagInsert, "bare", "", FALSE, <<>>, <<>>, <<>>)>>, <<>>))]

InsertDocumentsBulkWrite(s) ==
  /\ inv[s].h = "insertDocuments" /\ inv[s].pc = "bulk_write"
  /\ coll' = BulkStore(coll, InsertedLogBulk(inv[s].ulog, inv[s].pid))
  /\ inv' = [inv EXCEPT ![s].pc = "done", ![s].out = "inserted"]
  /\ UNCHANGED <<log_details, nextId>>

(***************************************************************************)
(* Specification                                                           *)
(***************************************************************************)
DocX == [id |-> 1, sid |-> "X", f |-> Flds(InfoLegacy(Scalar("v1")) @@ [tags |-> List(<<"a", "b">>), name |-> Scalar("v1")]), log |-> <<>>]
DocY == [id |-> 2, sid |-> "Y", f |-> Flds([tags |-> Scalar("a"), name |-> Absent]), log |-> <<>>]

\* The logs a document X may start with.  Its name was set from "b" to "c"
\* by updateOne (Process Record -2) and then to "v1" by updateFile (Process
\* Record -1); or its name was the empty list and was set to "v1" by
\* updateFile (Process Record -1), after an update of tags by updateFile
\* (Process Record -2).
HistoryLogs ==
  {<<MultiEntry(-1, TagUpdateFile, <<Desc("name", <<"v1">>, <<"c">>, "")>>)>>
     \o (CHOOSE log \in UpdateLog(DocX, -2, TagUpdateOne, "name", Scalar("b"), Scalar("c")) : TRUE),
   <<MultiEntry(-1, TagUpdateFile, <<Desc("name", <<"v1">>, <<>>, "")>>),
     MultiEntry(-2, TagUpdateFile, <<Desc("tags", <<"b">>, <<"c">>, "")>>)>>}

\* The collection either was never touched by the handlers, or X has one
\* of the histories above.

Init ==
  /\ \/ coll = <<DocX, DocY>> /\ log_details = {}
     \/ coll \in {<<[DocX EXCEPT !.log = log], DocY>> : log \in HistoryLogs} /\ log_details = {-2, -1}
  /\ nextId = 1
  /\ inv = [s \in Slots |-> IF s = 1 THEN Idle ELSE [Idle EXCEPT !.pc = "off"]]

\* The log ids a caller may ask restore for: those of the logs, and 0 (in no log)
LogIds == {0} \cup UNION {{coll[i].log[j].log_id : j \in DOMAIN coll[i].log} : i \in DOMAIN coll}

Next ==
  \E s \in Slots :
    \/ \E sid \in CritIds, field \in Fields, raw \in RawValues : UpdateOneFind(s, sid, field, raw)
    \/ UpdateOneInsertLog(s)
    \/ UpdateOneWrite(s)
    \/ \E field \in Fields, raw \in RawValues : UpdateAllInsertLog(s, field, raw)
    \/ UpdateAllFind(s)
    \/ UpdateAllBulkWrite(s)
    \/ \E sid \in CritIds, field \in Fields, log_id \in LogIds : RestoreOneFind(s, sid, field, log_id)
    \/ RestoreOneInsertLog(s)
    \/ RestoreOneWrite(s)
    \/ \E field \in Fields, log_id \in LogIds : RestoreAllInsertLog(s, field, log_id)
    \/ RestoreAllFind(s)
    \/ RestoreAllDoc(s)
    \/ \E sid \in CritIds, field \in RemovePaths : RemoveOneInsertLog(s, sid, field)
    \/ RemoveOneFind(s)
    \/ RemoveOneWrite(s)
    \/ \E field \in RemovePaths : RemoveAllInsertLog(s, field)
    \/ RemoveAllFind(s)
    \/ RemoveAllBulkWrite(s)
    \/ \E sid \in CritIds, pair \in RenamePairs : RenameOneInsertLog(s, sid, pair[1], pair[2])
    \/ RenameOneFind(s)
    \/ RenameOneWrite(s)
    \/ \E pair \in RenamePairs : RenameAllInsertLog(s, pair[1], pair[2])
    \/ RenameAllFind(s)
    \/ RenameAllBulkWrite(s)
    \/ \E file \in CsvFiles : UpdateFileCsvInsertLog(s, file)
    \/ UpdateFileCsvFind(s)
    \/ UpdateFileCsvSet(s)
    \/ UpdateFileCsvFindUpdated(s)
    \/ UpdateFileCsvPush(s)
    \/ UpdateFileCsvInsert(s)
    \/ \E file \in JsonFiles : UpdateFileJsonInsertLog(s, file)
    \/ UpdateFileJsonFind(s)
    \/ UpdateFileJsonSet(s)
    \/ UpdateFileJsonFindUpdated(s)
    \/ UpdateFileJsonPush(s)
    \/ UpdateFileJsonInsert(s)
    \/ \E file \in InsertFiles : InsertDocumentsInsertLog(s, file)
    \/ InsertDocumentsFind(s)
    \/ InsertDocumentsDoc(s)
    \/ InsertDocumentsInsertMany(s)
    \/ InsertDocumentsBulkWrite(s)
    \/ DeleteLog(s)

Spec == Init /\ [][Next]_vars

(***************************************************************************)
(* The single-field handlers on a document whose field `tags` holds        *)
(* embedded objects                                                        *)
(***************************************************************************)
\* The log of a document X: tags created as [o1] by updateFile (Process
\* Record -2), then tags and name changed by updateFile (Process Record -1)
DocEmbedded ==
  [id |-> 1, sid |-> "X", f |-> Flds([tags |-> List(<<"{o2}">>), name |-> Scalar("v1")]),
   log |-> <<MultiEntry(-1, TagUpdateFile, <<Desc("tags", <<"{o2}">>, <<"{o1}">>, ""),
                                             Desc("name", <<"v1">>, <<"c">>, "")>>),
             MultiEntry(-2, TagUpdateFile, <<Desc("tags", <<>>, <<>>, "")>>)>>]

InitEmbedded ==
  /\ coll = <<DocEmbedded, DocY>>
  /\ log_details = {-2, -1}
  /\ nextId = 1
  /\ inv = [s \in Slots |-> IF s = 1 THEN Idle ELSE [Idle EXCEPT !.pc = "off"]]

NextEmbedded ==
  \E s \in Slots :
    \/ \E sid \in CritIds, field \in Fields, raw \in RawValues : UpdateOneFind(s, sid, field, raw)
    \/ UpdateOneInsertLog(s)
    \/ UpdateOneWrite(s)
    \/ \E field \in Fields, raw \in RawValues : UpdateAllInsertLog(s, field, raw)
    \/ UpdateAllFind(s)
    \/ UpdateAllBulkWrite(s)
    \/ \E sid \in CritIds, field \in Fields, log_id \in LogIds : RestoreOneFind(s, sid, field, log_id)
    \/ RestoreOneInsertLog(s)
    \/ RestoreOneWrite(s)
    \/ \E field \in Fields, log_id \in LogIds : RestoreAllInsertLog(s, field, log_id)
    \/ RestoreAllFind(s)
    \/ RestoreAllDoc(s)
    \/ DeleteLog(s)

SpecEmbedded == InitEmbedded /\ [][NextEmbedded]_vars

(***************************************************************************)
(* updateOne and updateAll given dotted paths                              *)
(***************************************************************************)
\* `info.legacy_name` lies in a mapping of X; the first segment of
\* `name.first` holds a text in X and is missing in Y
DottedPaths == {"info.legacy_name", "name.first"}

InitDotted ==
  /\ coll \in {<<DocX, DocY>>, <<[DocY EXCEPT !.id = 1]>>}
  /\ log_details = {}
  /\ nextId = 1
  /\ inv = [s \in Slots |-> IF s = 1 THEN Idle ELSE [Idle EXCEPT !.pc = "off"]]

NextDotted ==
  \E s \in Slots :
    \/ \E sid \in CritIds \cup {"Y"}, field \in DottedPaths, raw \in RawValues :
         UpdateOneFind(s, sid, field, raw)
    \/ UpdateOneInsertLog(s)
    \/ UpdateOneWrite(s)
    \/ \E field \in DottedPaths, raw \in RawValues : UpdateAllInsertLog(s, field, raw)
    \/ UpdateAllFind(s)
    \/ UpdateAllBulkWrite(s)
    \/ DeleteLog(s)

SpecDotted == InitDotted /\ [][NextDotted]_vars

(***************************************************************************)
(* Two runs of the program against one database: the store calls of two   *)
(* handler invocations interleave.  Each store call is atomic on its       *)
(* document; nothing else orders the two runs.                             *)
(***************************************************************************)
InitInterleaved ==
  /\ coll = <<DocX, DocY>>
  /\ log_details = {}
  /\ nextId = 1
  /\ inv = [s \in Slots |-> Idle]

NextInterleaved ==
  \E s \in Slots :
    \/ \E sid \in CritIds, field \in Fields, raw \in RawValues : UpdateOneFind(s, sid, field, raw)
    \/ UpdateOneInsertLog(s)
    \/ UpdateOneWrite(s)
    \/ \E file \in CsvFiles : UpdateFileCsvInsertLog(s, file)
    \/ UpdateFileCsvFind(s)
    \/ UpdateFileCsvSet(s)
    \/ UpdateFileCsvFindUpdated(s)
    \/ UpdateFileCsvPush(s)
    \/ UpdateFileCsvInsert(s)
    \/ \E file \in JsonFiles : UpdateFileJsonInsertLog(s, file)
    \/ UpdateFileJsonFind(s)
    \/ UpdateFileJsonSet(s)
    \/ UpdateFileJsonFindUpdated(s)
    \/ UpdateFileJsonPush(s)
    \/ UpdateFileJsonInsert(s)
    \/ DeleteLog(s)

SpecInterleaved == InitInterleaved /\ [][NextInterleaved]_vars

(***************************************************************************)
(* insertDocuments run again and again with the same input file and no     *)
(* other operation in between.  The file given to every run is held in     *)
(* the slot that never runs.                                               *)
(***************************************************************************)
InitInsertAgain ==
  /\ \/ coll = <<DocX, DocY>> /\ log_details = {}
     \/ coll \in {<<[DocX EXCEPT !.log = log], DocY>> : log \in HistoryLogs} /\ log_details = {-2, -1}
  /\ nextId = 1
  /\ \E file \in InsertFiles :
       inv = [s \in Slots |-> IF s = 1 THEN Idle ELSE [Idle EXCEPT !.pc = "off", !.file = file]]

NextInsertAgain ==
  \/ InsertDocumentsInsertLog(1, inv[2].file)
  \/ InsertDocumentsFind(1)
  \/ InsertDocumentsDoc(1)
  \/ InsertDocumentsInsertMany(1)
  \/ InsertDocumentsBulkWrite(1)

SpecInsertAgain == InitInsertAgain /\ [][NextInsertAgain]_vars

(***************************************************************************)
(* The diff of one scalar change and its inverse, on their own: a field    *)
(* `name` changed from old to new, logged by updateLog (single-field) or   *)
(* by diffLogEntry (whole document), then undone by the inverse transform. *)
(***************************************************************************)
DocWith(v) == [NoDoc EXCEPT !.id = 1, !.sid = "X", !.f = [NoFields EXCEPT !["name"] = v]]

InitDiff ==
  /\ \E old, new \in {"a", "b", "c", "v1", "<True>", "<False>", "Non-existing"} :
       /\ old # new
       /\ coll = <<DocWith(Scalar(old))>>
       /\ inv = [s \in Slots |->
                   IF s = 1 THEN [Idle EXCEPT !.h = "diff", !.pc = "diff", !.field = "name",
                                              !.cur = Scalar(old), !.newv = Scalar(new)]
                   ELSE [Idle EXCEPT !.pc = "off"]]
  /\ log_details = {1}
  /\ nextId = 2

\* The entry updateLog builds for the change
DiffUpdateLog(s) ==
  /\ inv[s].h = "diff" /\ inv[s].pc = "diff"
  /\ \E e \in UpdateLogEntries(1, TagUpdateOne, inv[s].field, inv[s].cur, inv[s].newv) :
       inv' = [inv EXCEPT ![s].pc = "logged",
                 ![s].ulog = <<Desc(inv[s].field, e.added, e.removed, "")>>]
  /\ UNCHANGED <<coll, log_details, nextId>>

\* The modified_fields diffLogEntry builds for the change
DiffDocuments(s) ==
  /\ inv[s].h = "diff" /\ inv[s].pc = "diff"
  /\ \E e \in DiffLogEntry(DocWith(inv[s].cur), DocWith(inv[s].newv), 1, TagUpdateFile) :
       inv' = [inv EXCEPT ![s].pc = "logged", ![s].ulog = e.modified_fields]
  /\ UNCHANGED <<coll, log_details, nextId>>

\* The inverse transform of restore applied to the new value
DiffRestore(s) ==
  /\ inv[s].h = "diff" /\ inv[s].pc = "logged"
  /\ LET added == IF inv[s].ulog = <<>> THEN <<>> ELSE inv[s].ulog[1].added
         removed == IF inv[s].ulog = <<>> THEN <<>> ELSE inv[s].ulog[1].removed
         r == Collapse(inv[s].newv, InverseTransform(NewList(inv[s].newv), added, removed))
     IN /\ coll' = UpdateStore(coll, 1, Write(inv[s].field :> r, {}, FALSE, <<>>, <<>>))
        /\ inv' = [inv EXCEPT ![s].pc = "restored"]
  /\ UNCHANGED <<log_details, nextId>>

NextDiff == \E s \in Slots : DiffUpdateLog(s) \/ DiffDocuments(s) \/ DiffRestore(s)

SpecDiff == InitDiff /\ [][NextDiff]_vars

(***************************************************************************)
(* log_functions.compare_list_of_dicts: lists of embedded objects          *)
(*                                                                         *)
(* An embedded object is the sequence of its items in insertion order;     *)
(* an item is a key and a value.                                           *)
(***************************************************************************)
Item(key, value) == [key |-> key, value |-> value]

\* The embedded objects the lists are built from: objects of scalar
\* values (one of them written with its keys in two orders) and objects
\* that hold a list.
Objects ==
  {<<Item("id", Scalar("1")), Item("role", Scalar("x"))>>,
   <<Item("role", Scalar("x")), Item("id", Scalar("1"))>>,
   <<Item("id", Scalar("2")), Item("role", Scalar("x"))>>,
   <<Item("id", Scalar("1")), Item("tags", List(<<"a">>))>>,
   <<Item("id", Scalar("2")), Item("tags", List(<<"b">>))>>}

\* normalize(d): tuple(sorted(d.items())); the keys of one object differ, so
\* the items are ordered by key alone (KeyRank: the position of a key in
\* the order of Python strings).
NormalizeDict(d) ==
  LET KeyRank(key) == CASE key = "id" -> 1 [] key = "role" -> 2 [] key = "tags" -> 3
  IN CHOOSE t \in Orders(Range(d)) :
       \A i, j \in 1..Len(d) : i < j => KeyRank(t[i].key) < KeyRank(t[j].key)

\* The outcomes of compare_list_of_dicts(old_list, new_list, field_name).
CompareListOfDicts(old_list, new_list) ==
  LET old_set == {NormalizeDict(d) : d \in Range(old_list)}
      new_set == {NormalizeDict(d) : d \in Range(new_list)}
      \* A tuple can be put in a set only if every value in it can be hashed.
      Hashable(t) == \A i \in 1..Len(t) : t[i].value.k \notin {"list", "dict"}
  IN IF \E t \in old_set \cup new_set : ~Hashable(t)
       THEN {[out |-> "TypeError", added |-> <<>>, removed |-> <<>>]}
     ELSE IF new_set \ old_set = {} /\ old_set \ new_set = {}
       THEN {[out |-> "none", added |-> <<>>, removed |-> <<>>]}
     ELSE {[out |-> "entry", added |-> a, removed |-> r] :
             a \in Orders(new_set \ old_set), r \in Orders(old_set \ new_set)}

InitObjects ==
  /\ \E old_list, new_list \in {<<>>} \cup {<<a>> : a \in Objects} \cup {<<a, b>> : a, b \in Objects} :
       inv = [s \in Slots |->
                IF s = 1 THEN [Idle EXCEPT !.h = "objects", !.pc = "diff", !.field = "name",
                                           !.docs = old_list, !.bulk = new_list]
                ELSE [Idle EXCEPT !.h = "off"]]
  /\ coll = <<>>
  /\ log_details = <<>>
  /\ nextId = 1

\* diffLogEntry Case 2 on one key holding a list of embedded objects on both
\* sides; the descriptor list is what updateFile pushes when it is not empty.
DiffObjectLists(s) ==
  /\ inv[s].h = "objects" /\ inv[s].pc = "diff"
  /\ \E r \in CompareListOfDicts(inv[s].docs, inv[s].bulk) :
       inv' = [inv EXCEPT ![s].pc = "compared",
                          ![s].out = IF r.out = "entry" THEN "logged"
                                     ELSE IF r.out = "none" THEN "no_differences"
                                     ELSE r.out,
                          ![s].ulog = IF r.out = "entry"
                                        THEN <<[field |-> inv[s].field, added |-> r.added,
                                                removed |-> r.removed]>>
                                        ELSE <<>>]
  /\ UNCHANGED <<coll, log_details, nextId>>

NextObjects == \E s \in Slots : DiffObjectLists(s)

SpecObjects == InitObjects /\ [][NextObjects]_vars

(***************************************************************************)
(* The value normalizer character by character.  A text is the sequence of *)
(* its characters; a value holds texts as its elements, and the booleans   *)
(* are the elements TrueElem/FalseElem, which no text equals.              *)
(***************************************************************************)
Chars(text) == [isstr |-> TRUE, chars |-> text, val |-> Null]

TrueElem == <<"<True>">>
FalseElem == <<"<False>">>

\* str.lower() on one character
Lower(c) ==
  CASE c = "T" -> "t" [] c = "R" -> "r" [] c = "U" -> "u" [] c = "E" -> "e"
    [] c = "N" -> "n" [] c = "O" -> "o" [] c = "A" -> "a"
    [] OTHER -> c

RECURSIVE LStrip(_)
LStrip(text) ==
  IF text # <<>> /\ Head(text) = " " THEN LStrip(Tail(text)) ELSE text

RECURSIVE RStrip(_)
RStrip(text) ==
  IF text # <<>> /\ text[Len(text)] = " " THEN RStrip(SubSeq(text, 1, Len(text) - 1)) ELSE text

\* new_value.lower().strip()
LoweredValue(text) == RStrip(LStrip([i \in 1..Len(text) |-> Lower(text[i])]))

\* new_value.split(";")
RECURSIVE Split(_)
Split(text) ==
  IF text = <<>> THEN << <<>> >>
  ELSE IF Head(text) = ";" THEN << <<>> >> \o Split(Tail(text))
  ELSE LET rest == Split(Tail(text))
       IN << <<Head(text)>> \o rest[1] >> \o Tail(rest)

\* Variant: the pieces of the trimmed, lower-cased text
NormalizerLowered(raw) ==
  IF raw.isstr
  THEN IF LoweredValue(raw.chars) = <<"t", "r", "u", "e">> THEN Scalar(TrueElem)
       ELSE IF LoweredValue(raw.chars) = <<"f", "a", "l", "s", "e">> THEN Scalar(FalseElem)
       ELSE IF LoweredValue(raw.chars) = <<"n", "o", "n", "e">> THEN Null
       ELSE IF ";" \in Range(raw.chars) THEN List(Split(LoweredValue(raw.chars)))
       ELSE Scalar(LoweredValue(raw.chars))
  ELSE raw.val

\* update_value.py:34-47, the normalizer of updateOne
UpdateOneNormalizer(raw) ==
  IF raw.isstr
  THEN LET lowered_value == LoweredValue(raw.chars)
       IN IF lowered_value \in {<<"t", "r", "u", "e">>, <<"f", "a", "l", "s", "e">>}
            THEN Scalar(IF lowered_value = <<"t", "r", "u", "e">> THEN TrueElem ELSE FalseElem)
          ELSE IF lowered_value = <<"n", "o", "n", "e">> THEN Null
          ELSE IF ";" \in Range(raw.chars) THEN List(Split(raw.chars))
          ELSE Scalar(raw.chars)
  ELSE raw.val

\* update_value.py:101-114, the normalizer of updateAll
UpdateAllNormalizer(raw) ==
  IF raw.isstr
  THEN LET lowered_value == LoweredValue(raw.chars)
       IN IF lowered_value \in {<<"t", "r", "u", "e">>, <<"f", "a", "l", "s", "e">>}
            THEN Scalar(IF lowered_value = <<"t", "r", "u", "e">> THEN TrueElem ELSE FalseElem)
          ELSE IF lowered_value = <<"n", "o", "n", "e">> THEN Null
          ELSE IF ";" \in Range(raw.chars) THEN List(Split(raw.chars))
          ELSE Scalar(raw.chars)
  ELSE raw.val

\* The raw values given to the normalizer: every text of at most three
\* characters over "a", "A", ";" and the blank, the texts of the keywords
\* in several spellings, and values that are not texts.
RawInputs ==
  LET A == {"a", "A", ";", " "}
      ShortTexts == {<<>>} \cup {<<x>> : x \in A} \cup {<<x, y>> : x, y \in A}
                    \cup {<<x, y, z>> : x, y, z \in A}
      KeywordTexts ==
        {<<"t", "r", "u", "e">>, <<"T", "r", "u", "e">>, <<" ", "T", "R", "U", "E", " ">>,
         <<"f", "a", "l", "s", "e">>, <<"F", "a", "l", "s", "e">>,
         <<"n", "o", "n", "e">>, <<"N", "o", "n", "e">>, <<"N", "O", "N", "E", " ">>,
         <<"t", "r", "u", "e", ";">>, <<"n", "o", "n", "e", ";", "a">>,
         <<"t", "r", "u", "e", "a">>}
      TypedValues == {Null, Scalar(TrueElem), Scalar(<<"<7>">>), List(<<<<"a">>, <<"a">>>>)}
  IN {Chars(t) : t \in ShortTexts \cup KeywordTexts}
     \cup {[isstr |-> FALSE, chars |-> <<>>, val |-> v] : v \in TypedValues}

InitNormalize ==
  /\ \E raw \in RawInputs :
       inv = [s \in Slots |->
                IF s = 1 THEN [Idle EXCEPT !.h = "normalize", !.pc = "raw", !.file = <<raw>>]
                ELSE [Idle EXCEPT !.h = "off"]]
  /\ coll = <<>>
  /\ log_details = <<>>
  /\ nextId = 1

NormalizeInUpdateOne(s) ==
  /\ inv[s].h = "normalize" /\ inv[s].pc = "raw"
  /\ inv' = [inv EXCEPT ![s].h = "updateOne", ![s].pc = "normalized",
                        ![s].newv = UpdateOneNormalizer(inv[s].file[1])]
  /\ UNCHANGED <<coll, log_details, nextId>>

NormalizeInUpdateAll(s) ==
  /\ inv[s].h = "normalize" /\ inv[s].pc = "raw"
  /\ inv' = [inv EXCEPT ![s].h = "updateAll", ![s].pc = "normalized",
                        ![s].newv = UpdateAllNormalizer(inv[s].file[1])]
  /\ UNCHANGED <<coll, log_details, nextId>>

NextNormalize == \E s \in Slots : NormalizeInUpdateOne(s) \/ NormalizeInUpdateAll(s)

SpecNormalize == InitNormalize /\ [][NextNormalize]_vars

(***************************************************************************)
(* Claims                                                                  *)
(***************************************************************************)
\* The stored document a finished single-document invocation was about
Stored(s) == FindOne(coll, inv[s].sid)

Finished(s, h) == inv[s].h = h /\ inv[s].pc = "done" /\ inv[s].out # "not_found"

\* The entry updateOne writes for tags changed from ["a","b"] to ["a","c"]
TagsEntry(e) ==
  /\ e.operation = TagUpdateOne /\ e.shape = "single" /\ e.modified_field = "tags"
  /\ e.has_cv /\ e.added = <<"c">> /\ e.removed = <<"b">>

\* C1: from tags = ["a","b"] and an empty log, after updateOne set tags to
\* ["a","c"], restoreOne of tags to the log_id of the entry that update wrote
\* leaves tags = ["a","b"].
C1_RestoreAfterUpdate ==
  \A s \in Slots :
    (/\ Finished(s, "restoreOne")
     /\ inv[s].field = "tags"
     /\ inv[s].doc.f["tags"] = List(<<"a", "c">>)
     /\ Len(inv[s].doc.log) = 1
     /\ TagsEntry(inv[s].doc.log[1])
     /\ inv[s].doc.log[1].log_id = inv[s].log_id)
    => Stored(s).f["tags"] = List(<<"a", "b">>)

\* The added and removed elements an entry records for a field, in either shape
NamesField(e, field) ==
  \/ e.shape = "single" /\ e.modified_field = field
  \/ FieldEntry(e, field) # <<>>
AddedOf(e, field) == IF e.shape = "single" THEN e.added ELSE FieldEntry(e, field)[1].added
RemovedOf(e, field) == IF e.shape = "single" THEN e.removed ELSE FieldEntry(e, field)[1].removed

\* The replay as stated: newest entry down to and including the target
RECURSIVE InclusiveReplay(_, _, _, _)
InclusiveReplay(logs, log_id, field, value) ==
  IF logs = <<>> THEN value
  ELSE LET e == Head(logs)
           v == IF NamesField(e, field)
                THEN Without(value, AddedOf(e, field)) \o RemovedOf(e, field) ELSE value
       IN IF e.log_id = log_id THEN v ELSE InclusiveReplay(Tail(logs), log_id, field, v)

InclusiveValue(doc, field, log_id) ==
  LET cur == Get(doc.f, field)
      r == InclusiveReplay(doc.log, log_id, field, NewList(cur))
  IN IF ~IsList(cur) /\ Len(r) <= 1 THEN (IF r = <<>> THEN Null ELSE Scalar(r[1])) ELSE List(r)

HasRestorableTarget(doc, log_id) ==
  /\ \E j \in DOMAIN doc.log : doc.log[j].log_id = log_id
  /\ doc.log[TargetLogIndex(doc.log, log_id)].operation[1] \in {"update", "restore"}

\* C2: restoreOne and restoreAll leave in the field the value of the replay
\* from the newest entry down to and including the target entry, every entry
\* of that span that names the field undone.
C2_ReplayInclusive ==
  \A s \in Slots :
    /\ (Finished(s, "restoreOne") /\ HasRestorableTarget(inv[s].doc, inv[s].log_id))
       => Get(Stored(s).f, inv[s].field) = InclusiveValue(inv[s].doc, inv[s].field, inv[s].log_id)
    /\ inv[s].h = "restoreAll"
       => \A j \in 1..inv[s].i :
            HasRestorableTarget(inv[s].docs[j], inv[s].log_id)
            => Get(coll[j].f, inv[s].field) = InclusiveValue(inv[s].docs[j], inv[s].field, inv[s].log_id)

\* C3: after N >= 1 successive updates of one field of a document whose log
\* was empty, restoring the field to the log_id of the oldest of the N
\* entries gives the value the field had before the first update.
C3_MultiStepRoundTrip ==
  \A s \in Slots :
    (/\ Finished(s, "restoreOne")
     /\ inv[s].doc.log # <<>>
     /\ \A j \in DOMAIN inv[s].doc.log :
          /\ inv[s].doc.log[j].shape = "single"
          /\ inv[s].doc.log[j].operation \in {TagUpdateOne, TagUpdateAll}
          /\ inv[s].doc.log[j].modified_field = inv[s].field
     /\ inv[s].doc.log[Len(inv[s].doc.log)].log_id = inv[s].log_id)
    => Stored(s).f[inv[s].field] = DocX.f[inv[s].field]

\* C4: for scalars old # new the diff recorded for the change has exactly
\* one added element, new, and one removed element, old, and the inverse
\* transform applied to new gives back old.
C4_ScalarDiffInverts ==
  \A s \in Slots :
    (inv[s].h = "diff" /\ inv[s].pc = "restored")
    => /\ Len(inv[s].ulog) = 1
       /\ inv[s].ulog[1].added = inv[s].newv.v
       /\ inv[s].ulog[1].removed = inv[s].cur.v
       /\ coll[1].f[inv[s].field] = inv[s].cur

\* The scenario of C5: updateOne of tags to ["a","c"] on a document read
\* with tags = ["a","b"] and an empty log has returned
C5_Scenario(s) ==
  /\ inv[s].h = "updateOne" /\ inv[s].pc = "done" /\ inv[s].out # "not_found"
  /\ inv[s].field = "tags" /\ inv[s].newv = List(<<"a", "c">>)
  /\ inv[s].doc.f["tags"] = List(<<"a", "b">>) /\ inv[s].doc.log = <<>>

\* C5: updateOne of tags from ["a","b"] (empty log) to ["a","c"] stores
\* tags = ["a","c"] and a newest log entry modified_field = "tags" with
\* changed_values added = ["c"], removed = ["b"].
C5_UpdateTagsLogged ==
  \A s \in Slots :
    C5_Scenario(s)
    => /\ Stored(s).f["tags"] = List(<<"a", "c">>)
       /\ Len(Stored(s).log) = 1
       /\ TagsEntry(Stored(s).log[1])
       /\ Stored(s).log[1].log_id = inv[s].pid

C5_Witness == \E s \in Slots : C5_Scenario(s) /\ inv[s].out = "updated"

\* C6: every write that changes a field of a document also changes its
\* log, and a new document is stored with its log entry: field change and
\* log reach the store in one write.
C6_FieldAndLogInOneWrite ==
  [][\A i \in DOMAIN coll' :
       IF i \in DOMAIN coll
       THEN coll'[i].f # coll[i].f => coll'[i].log # coll[i].log
       ELSE coll'[i].log # <<>>]_vars

\* s2 has s1 as a suffix, and every entry in front of it carries log_id pid
PrependedBy(s1, s2, pid) ==
  /\ Len(s2) >= Len(s1)
  /\ SubSeq(s2, Len(s2) - Len(s1) + 1, Len(s2)) = s1
  /\ \A j \in 1..(Len(s2) - Len(s1)) : s2[j].log_id = pid

AllReturned == \A s \in Slots : inv[s].pc \in {"done", "off"}

\* C8: once the handlers have returned, every log_id in a document's log
\* names a Process Record that exists.
C8_NoPhantomLogId ==
  AllReturned
  => \A i \in DOMAIN coll : \A j \in DOMAIN coll[i].log : coll[i].log[j].log_id \in log_details

\* C9: a handler that created a Process Record and returns without having
\* changed any document has deleted that Process Record.
C9_UnusedRecordDeleted ==
  \A s \in Slots :
    (/\ inv[s].pc = "done" /\ inv[s].h # "none" /\ inv[s].out # "KeyError"
     /\ inv[s].pid # 0 /\ coll = inv[s].pre)
    => inv[s].pid \notin log_details

\* restoreOne has returned, and the entry of its log_id in the document it
\* read carries a tag that starts neither with update nor with restore
C10_Scenario(s) ==
  /\ Finished(s, "restoreOne")
  /\ \E j \in DOMAIN inv[s].doc.log : inv[s].doc.log[j].log_id = inv[s].log_id
  /\ inv[s].doc.log[TargetLogIndex(inv[s].doc.log, inv[s].log_id)].operation[1]
       \notin {"update", "restore"}

\* C10: restoreOne on a log_id whose entry is a remove (or any tag not
\* starting with update/restore) ends as not restorable: the collection is
\* unchanged and the Process Record of the attempt is deleted.
C10_NotRestorable ==
  \A s \in Slots :
    C10_Scenario(s)
    => /\ inv[s].out = "not_restorable"
       /\ coll = inv[s].pre
       /\ inv[s].pid # 0 /\ inv[s].pid \notin log_details

C10_Witness ==
  \E s \in Slots :
    /\ C10_Scenario(s)
    /\ inv[s].doc.log[TargetLogIndex(inv[s].doc.log, inv[s].log_id)].operation = TagRemove

\* restoreOne has returned, the entry of its log_id is an update or restore
\* entry, and the replay of the log it read ends at the current value
C11_Scenario(s) ==
  /\ Finished(s, "restoreOne")
  /\ HasRestorableTarget(inv[s].doc, inv[s].log_id)
  /\ RestoredValue(inv[s].doc, inv[s].field, inv[s].log_id) = Get(inv[s].doc.f, inv[s].field)

\* C11: when the value restoreOne computes equals the current value of the
\* field, no write reaches the document (fields and log as before) and the
\* Process Record of the attempt is deleted.
C11_SameValueNoWrite ==
  \A s \in Slots :
    C11_Scenario(s)
    => /\ inv[s].out = "same"
       /\ coll = inv[s].pre
       /\ inv[s].pid # 0 /\ inv[s].pid \notin log_details

\* The case with entries newer than the target that leave the field alone
C11_Witness ==
  \E s \in Slots :
    /\ C11_Scenario(s)
    /\ TargetLogIndex(inv[s].doc.log, inv[s].log_id) > 1

\* restoreOne has returned and no entry of the log it read carries log_id
C12_Scenario(s) ==
  /\ Finished(s, "restoreOne")
  /\ \A j \in DOMAIN inv[s].doc.log : inv[s].doc.log[j].log_id # inv[s].log_id

\* C12: restoreOne with a log_id no entry of the document's log carries
\* ends as not found: the document is unchanged and the Process Record of
\* the attempt is deleted.
C12_LogIdNotFound ==
  \A s \in Slots :
    C12_Scenario(s)
    => /\ inv[s].out = "log_id_not_found"
       /\ coll = inv[s].pre
       /\ inv[s].pid # 0 /\ inv[s].pid \notin log_details

\* The document has a log, and none of its entries carries the log_id
C12_Witness == \E s \in Slots : C12_Scenario(s) /\ inv[s].doc.log # <<>>

\* removeOne has returned for a document it found in which its path does
\* not resolve: the first segment is missing, or it holds no mapping while
\* the path goes on, or the mapping lacks the last segment
C13_Scenario(s) ==
  /\ Finished(s, "removeOne")
  /\ LET doc == inv[s].doc
         path == inv[s].field
     IN \/ doc.f[TopKey(path)].k = "absent"
        \/ Parent(path) # "" /\ doc.f[Parent(path)].k # "dict"
        \/ Parent(path) # "" /\ path \in Paths /\ doc.f[path].k = "absent"

\* C13: removeOne on a path that does not resolve in the target document
\* writes nothing to the document, deletes its Process Record and reports
\* the field as not found.
C13_RemoveUnresolved ==
  \A s \in Slots :
    C13_Scenario(s)
    => /\ inv[s].out = "field_not_found"
       /\ coll = inv[s].pre
       /\ inv[s].pid # 0 /\ inv[s].pid \notin log_details

\* The path is a key of the mapping info, which lost that key before
C13_Witness ==
  \E s \in Slots :
    /\ C13_Scenario(s)
    /\ inv[s].field = "info.legacy_name" /\ inv[s].doc.f["info"] = Dict

\* renameOne of info.legacy_name to info.new_name has returned for a
\* document read with info.legacy_name = "v1"
C14_Scenario(s) ==
  /\ Finished(s, "renameOne")
  /\ inv[s].field = "info.legacy_name" /\ inv[s].field2 = "info.new_name"
  /\ inv[s].doc.f["info.legacy_name"] = Scalar("v1")

\* C14: renameOne of info.legacy_name to info.new_name where
\* info.legacy_name = "v1" leaves info.new_name = "v1", info.legacy_name
\* absent and a newest log entry with the descriptor field =
\* info.legacy_name, renamed_to = info.new_name; the step that sets the new
\* path also unsets the old one and writes the log.
C14_RenameNested ==
  /\ [](\A s \in Slots :
         C14_Scenario(s)
         => /\ Stored(s).f["info.new_name"] = Scalar("v1")
            /\ Stored(s).f["info.legacy_name"] = Absent
            /\ Stored(s).f["info"] = Dict
            /\ Len(Stored(s).log) = Len(inv[s].doc.log) + 1
            /\ Stored(s).log[1].log_id = inv[s].pid
            /\ Stored(s).log[1].operation = TagRename
            /\ Stored(s).log[1].modified_fields
                 = <<[field |-> "info.legacy_name", added |-> <<>>, removed |-> <<>>,
                      renamed_to |-> "info.new_name"]>>)
  /\ [][\A s \in Slots, i \in DOMAIN coll :
         (/\ inv[s].h = "renameOne" /\ inv[s].field = "info.legacy_name"
          /\ i \in DOMAIN coll'
          /\ \/ coll'[i].f["info.new_name"] # coll[i].f["info.new_name"]
             \/ coll'[i].f["info.legacy_name"] # coll[i].f["info.legacy_name"])
         => /\ coll'[i].f["info.new_name"] = coll[i].f["info.legacy_name"]
            /\ coll'[i].f["info.legacy_name"] = Absent
            /\ Len(coll'[i].log) = Len(coll[i].log) + 1]_vars

C14_Witness == \E s \in Slots : C14_Scenario(s) /\ inv[s].out = "renamed"

\* The document insertDocuments handles in its next loop step
C15_NextDoc(s) == inv[s].file[inv[s].i + 1]

\* C15: when insertDocuments handles a document whose stable_id is that of
\* a stored document and whose fields equal the stored ones, the step
\* changes nothing: fields and log of the stored document stay and no
\* document is created.
C15_IdenticalSkipped ==
  [][\A s \in Slots :
       (/\ inv[s].h = "insertDocuments" /\ inv[s].pc = "loop"
        /\ inv'[s].i = inv[s].i + 1
        /\ FindOne(coll, C15_NextDoc(s).sid) # NoDoc
        /\ FindOne(coll, C15_NextDoc(s).sid).f = C15_NextDoc(s).f)
       => coll' = coll]_vars

\* C16: when insertDocuments handles a document whose stable_id is that of
\* a stored document with other content, the step is a shallow merge: each
\* top-level field of the incoming document takes the incoming value, each
\* other stored field keeps its value, and exactly one entry, tagged
\* insert-overwrite, is put in front of the log.
C16_ShallowMerge ==
  [][\A s \in Slots :
       (/\ inv[s].h = "insertDocuments" /\ inv[s].pc = "loop"
        /\ inv'[s].i = inv[s].i + 1
        /\ FindOne(coll, C15_NextDoc(s).sid) # NoDoc
        /\ FindOne(coll, C15_NextDoc(s).sid).f # C15_NextDoc(s).f)
       => LET d == C15_NextDoc(s)
              old == FindOne(coll, d.sid)
              new == FindOne(coll', d.sid)
          IN /\ \A k \in Paths :
                  new.f[k] = IF TopKey(k) \in PresentFields(d.f) THEN d.f[k] ELSE old.f[k]
             /\ Len(new.log) = Len(old.log) + 1
             /\ Tail(new.log) = old.log
             /\ new.log[1].log_id = inv[s].pid
             /\ new.log[1].operation = <<"insert", "-overwrite">>]_vars

\* The number of rows or documents a batch invocation was given
C17_BatchSize(s) ==
  CASE inv[s].h = "updateFileCsv" -> Len(inv[s].file.rows)
    [] inv[s].h \in {"updateFileJson", "insertDocuments"} -> Len(inv[s].file)
    [] OTHER -> Len(inv[s].docs)

\* C17: a batch flow never aborts on a bad row or document: when it has
\* returned, it has gone through every row or document it was given and
\* has raised nothing.
C17_BatchNeverAborts ==
  \A s \in Slots :
    (/\ inv[s].pc = "done"
     /\ inv[s].h \in {"insertDocuments", "updateFileCsv", "updateFileJson", "restoreAll"})
    => /\ inv[s].out # "KeyError"
       /\ inv[s].i = C17_BatchSize(s)

\* A single-document handler has returned, and no document of the
\* collection it started on has the stable_id of its criteria
C18_Scenario(s) ==
  /\ inv[s].pc = "done"
  /\ inv[s].h \in {"updateOne", "renameOne", "removeOne", "restoreOne"}
  /\ \A i \in DOMAIN inv[s].pre : inv[s].pre[i].sid # inv[s].sid

\* C18: a single-document handler that finds no document for its criteria
\* returns the outcome not found, writes nothing to the collection and
\* leaves no Process Record of its own.
C18_NoDocumentNoTrace ==
  \A s \in Slots :
    C18_Scenario(s)
    => /\ inv[s].out = "not_found"
       /\ coll = inv[s].pre
       /\ inv[s].pid \notin log_details

\* The handler had created its Process Record before it looked for the document
C18_Witness == \E s \in Slots : C18_Scenario(s) /\ inv[s].pid # 0

\* Two embedded objects with the same keys and the same value at each key
C19_Same(a, b) ==
  /\ {a[i].key : i \in 1..Len(a)} = {b[i].key : i \in 1..Len(b)}
  /\ \A i \in 1..Len(a), j \in 1..Len(b) : a[i].key = b[j].key => a[i].value = b[j].value

\* new_list holds the objects of old_list in another order
C19_Reordered(old_list, new_list) ==
  /\ Len(old_list) = Len(new_list)
  /\ \E i \in 1..Len(old_list) : ~C19_Same(old_list[i], new_list[i])
  /\ \E p \in Orders(1..Len(old_list)) :
       \A i \in 1..Len(old_list) : C19_Same(old_list[i], new_list[p[i]])

\* C19: in the whole-document diff, two lists of embedded objects that hold
\* the same set of objects in a different order produce no descriptor, so
\* the comparison ends with "no differences" and nothing to log.
C19_ReorderNoDescriptor ==
  \A s \in Slots :
    (/\ inv[s].h = "objects" /\ inv[s].pc = "compared"
     /\ C19_Reordered(inv[s].docs, inv[s].bulk))
    => inv[s].out = "no_differences" /\ inv[s].ulog = <<>>

\* The same statement for objects whose values are all scalars
C19_ScalarObjects ==
  \A s \in Slots :
    (/\ inv[s].h = "objects" /\ inv[s].pc = "compared"
     /\ C19_Reordered(inv[s].docs, inv[s].bulk)
     /\ \A d \in Range(inv[s].docs) : \A i \in 1..Len(d) : d[i].value.k = "scalar")
    => inv[s].out = "no_differences" /\ inv[s].ulog = <<>>

C19_ScalarWitness ==
  \E s \in Slots :
    /\ inv[s].h = "objects" /\ inv[s].pc = "compared"
    /\ inv[s].docs = << <<Item("id", Scalar("1")), Item("role", Scalar("x"))>>,
                        <<Item("id", Scalar("2")), Item("role", Scalar("x"))>> >>
    /\ inv[s].bulk = << <<Item("id", Scalar("2")), Item("role", Scalar("x"))>>,
                        <<Item("role", Scalar("x")), Item("id", Scalar("1"))>> >>
    /\ inv[s].out = "no_differences"

\* updateOne has returned and its new value is the value it read at the
\* field (null when the field is absent)
C20_Scenario(s) ==
  /\ Finished(s, "updateOne")
  /\ inv[s].newv = Get(inv[s].doc.f, inv[s].field)

\* C20: writing back the value just read is a no-op: updateOne whose new
\* value equals the value read at the field (null when the field is absent)
\* issues no write, adds no log entry and leaves no Process Record.
C20_WriteBackNoOp ==
  \A s \in Slots :
    C20_Scenario(s)
    => /\ coll = inv[s].pre
       /\ inv[s].pid # 0 /\ inv[s].pid \notin log_details

\* The same statement when the value read is not null
C20_WriteBackValue ==
  \A s \in Slots :
    (C20_Scenario(s) /\ ~IsNone(inv[s].newv))
    => /\ inv[s].out = "same"
       /\ coll = inv[s].pre
       /\ inv[s].pid # 0 /\ inv[s].pid \notin log_details

C20_ValueWitness ==
  \E s \in Slots : C20_Scenario(s) /\ inv[s].newv = List(<<"a", "c">>)

\* text.join(";") of a list of texts
RECURSIVE C21_Join(_)
C21_Join(pieces) ==
  IF Len(pieces) = 1 THEN pieces[1]
  ELSE pieces[1] \o <<";">> \o C21_Join(Tail(pieces))

\* The text compared: blanks at both ends removed, letters in lower case
C21_Keyword(text, word) ==
  \E i, j \in 0..Len(text) :
    /\ \A n \in 1..i : text[n] = " "
    /\ \A n \in (Len(text) - j + 1)..Len(text) : text[n] = " "
    /\ i + j + Len(word) = Len(text)
    /\ \A n \in 1..Len(word) : Lower(text[i + n]) = word[n]

\* What the normalizer is to give for a raw value
C21_Expected(raw, v) ==
  IF ~raw.isstr THEN v = raw.val
  ELSE IF C21_Keyword(raw.chars, <<"t", "r", "u", "e">>) THEN v = Scalar(TrueElem)
  ELSE IF C21_Keyword(raw.chars, <<"f", "a", "l", "s", "e">>) THEN v = Scalar(FalseElem)
  ELSE IF C21_Keyword(raw.chars, <<"n", "o", "n", "e">>) THEN v = Null
  ELSE IF \E n \in 1..Len(raw.chars) : raw.chars[n] = ";"
    THEN /\ v.k = "list"
         /\ Len(v.v) = Cardinality({n \in 1..Len(raw.chars) : raw.chars[n] = ";"}) + 1
         /\ \A n \in 1..Len(v.v) : ";" \notin Range(v.v[n])
         /\ C21_Join(v.v) = raw.chars
  ELSE v = Scalar(raw.chars)

C22_Names(e, path) ==
  \/ e.modified_field = path
  \/ \E n \in 1..Len(e.modified_fields) :
       e.modified_fields[n].field = path \/ e.modified_fields[n].renamed_to = path

\* The entries the invocation of slot s put in front of the log of a document
C22_Prepended(s, old, new) ==
  {new.log[n] : n \in {m \in 1..(Len(new.log) - Len(old.log)) : new.log[m].log_id = inv[s].pid}}

\* C22: after a completed operation, every path of a stored document whose
\* value differs from the one before the operation is named by an entry
\* the operation prepended to the log of that document, also when the
\* name of the key merely begins with "log".
C22_ChangedFieldNamed ==
  \A s \in Slots :
    (inv[s].pc = "done" /\ inv[s].pid # 0 /\ inv[s].out # "KeyError")
    => \A i \in DOMAIN coll, j \in DOMAIN inv[s].pre :
         coll[i].id = inv[s].pre[j].id
         => \A path \in Paths :
              FlatGet(inv[s].pre[j], path) # FlatGet(coll[i], path)
              => \E e \in C22_Prepended(s, inv[s].pre[j], coll[i]) : C22_Names(e, path)

\* The same statement for the operations other than insertDocuments and the
\* paths whose name does not begin with "log"
C22_OtherFieldsNamed ==
  \A s \in Slots :
    (inv[s].pc = "done" /\ inv[s].pid # 0 /\ inv[s].h # "insertDocuments")
    => \A i \in DOMAIN coll, j \in DOMAIN inv[s].pre :
         coll[i].id = inv[s].pre[j].id
         => \A path \in Paths \ {"logbook"} :
              FlatGet(inv[s].pre[j], path) # FlatGet(coll[i], path)
              => \E e \in C22_Prepended(s, inv[s].pre[j], coll[i]) : C22_Names(e, path)

\* The same statement for updateFile alone
C22_UpdateFileNamed ==
  \A s \in Slots :
    (inv[s].pc = "done" /\ inv[s].pid # 0 /\ inv[s].h = "updateFileJson")
    => \A i \in DOMAIN coll, j \in DOMAIN inv[s].pre :
         coll[i].id = inv[s].pre[j].id
         => \A path \in Paths :
              FlatGet(inv[s].pre[j], path) # FlatGet(coll[i], path)
              => \E e \in C22_Prepended(s, inv[s].pre[j], coll[i]) : C22_Names(e, path)

\* The replay over the entries newer than the target, an entry of either
\* shape that names the field undone
RECURSIVE C23_Replay(_, _, _, _)
C23_Replay(logs, log_id, field, value) ==
  IF logs = <<>> \/ Head(logs).log_id = log_id THEN value
  ELSE LET e == Head(logs)
       IN C23_Replay(Tail(logs), log_id, field,
                     IF NamesField(e, field)
                     THEN Without(value, AddedOf(e, field)) \o RemovedOf(e, field)
                     ELSE value)

C23_Value(doc, field, log_id) ==
  LET cur == Get(doc.f, field)
      r == C23_Replay(doc.log, log_id, field, NewList(cur))
  IN IF ~IsList(cur) /\ Len(r) <= 1 THEN (IF r = <<>> THEN Null ELSE Scalar(r[1])) ELSE List(r)

\* C23: the restore replay inverts both shapes of entry: after restoreOne the
\* field holds the value obtained by undoing every entry newer than the
\* target that names the field, whether it carries modified_field with
\* changed_values or a modified_fields list.
C23_BothShapesInverted ==
  \A s \in Slots :
    (Finished(s, "restoreOne") /\ HasRestorableTarget(inv[s].doc, inv[s].log_id))
    => Get(Stored(s).f, inv[s].field) = C23_Value(inv[s].doc, inv[s].field, inv[s].log_id)

\* The same statement when no entry newer than the target is of the
\* single-field shape and names the field
C23_ListShapeInverted ==
  \A s \in Slots :
    (/\ Finished(s, "restoreOne") /\ HasRestorableTarget(inv[s].doc, inv[s].log_id)
     /\ \A n \in 1..(TargetLogIndex(inv[s].doc.log, inv[s].log_id) - 1) :
          ~(inv[s].doc.log[n].shape = "single" /\ inv[s].doc.log[n].modified_field = inv[s].field))
    => Get(Stored(s).f, inv[s].field) = C23_Value(inv[s].doc, inv[s].field, inv[s].log_id)

\* The descriptors of the entries updateFile (JSON) put in front of the log
\* of a document that was stored before the invocation of slot s
C24_Descs(s, old, new) ==
  UNION {Range(new.log[n].modified_fields) :
           n \in {m \in 1..(Len(new.log) - Len(old.log)) : new.log[m].log_id = inv[s].pid}}

C24_Present(doc, path) == doc.f[path].k # "absent"

\* C24: in the whole-document diff a descriptor holding only `field` is
\* emitted for a path exactly when the path is present in one of the old and
\* new documents and not in the other; a path present in both with
\* different values gets a descriptor with an added or a removed element.
C24_FieldOnlyDescriptor ==
  \A s \in Slots :
    (inv[s].h = "updateFileJson" /\ inv[s].pc = "done")
    => \A i \in DOMAIN coll, j \in DOMAIN inv[s].pre :
         coll[i].id = inv[s].pre[j].id
         => \A d \in C24_Descs(s, inv[s].pre[j], coll[i]) :
              (d.added = <<>> /\ d.removed = <<>>)
              <=> (C24_Present(inv[s].pre[j], d.field) # C24_Present(coll[i], d.field))

\* The same statement for the paths whose old and new values, when both
\* are present, do not hold the same set of elements
C24_DifferentElements ==
  \A s \in Slots :
    (inv[s].h = "updateFileJson" /\ inv[s].pc = "done")
    => \A i \in DOMAIN coll, j \in DOMAIN inv[s].pre :
         coll[i].id = inv[s].pre[j].id
         => \A d \in C24_Descs(s, inv[s].pre[j], coll[i]) :
              (/\ C24_Present(inv[s].pre[j], d.field) /\ C24_Present(coll[i], d.field)
               => Range(AsList(inv[s].pre[j].f[d.field])) # Range(AsList(coll[i].f[d.field])))
              => ((d.added = <<>> /\ d.removed = <<>>)
                  <=> (C24_Present(inv[s].pre[j], d.field) # C24_Present(coll[i], d.field)))

\* A value with an element that is an embedded object
C25_HoldsObjects(v) == \E e \in Range(NewList(v)) : e \in ObjectElems

\* C25: the single-field diff tolerates elements that cannot be put in a
\* set: updateOne and restoreOne on a field whose old or new value holds
\* embedded objects, the two values differing, complete and leave their
\* entry at the head of the log of the document.
C25_ObjectsTolerated ==
  \A s \in Slots :
    (/\ inv[s].h \in {"updateOne", "restoreOne"} /\ inv[s].pc = "done"
     /\ inv[s].out \notin {"not_found", "same", "log_id_not_found", "not_restorable"}
     /\ C25_HoldsObjects(inv[s].cur) \/ C25_HoldsObjects(inv[s].newv))
    => /\ inv[s].out \in {"updated", "restored"}
       /\ Stored(s).log # <<>>
       /\ Head(Stored(s).log).log_id = inv[s].pid

\* C26: reading a dotted path gives absent, without raising, as soon as an
\* intermediate segment is missing or holds a value that is not a mapping:
\* updateOne and updateAll given such a path end in one of their reported
\* outcomes.
C26_DottedReadNeverRaises ==
  \A s \in Slots :
    (inv[s].h \in {"updateOne", "updateAll"} /\ inv[s].pc = "done")
    => inv[s].out \in {"not_found", "same", "updated", "no_changes", "up_to_date"}

\* The same statement for the documents in which no segment before the last
\* holds a text or a list
C26_MissingSegment ==
  \A s \in Slots :
    (/\ inv[s].h \in {"updateOne", "updateAll"} /\ inv[s].pc = "done"
     /\ \A i \in DOMAIN inv[s].pre : inv[s].pre[i].f[Parent(inv[s].field)].k \notin {"scalar", "list"})
    => inv[s].out \in {"not_found", "same", "updated", "no_changes", "up_to_date"}

\* The entry records as added the elements of the value, and nothing removed
C27_AddedOnly(e, pid, field, v) ==
  /\ e.log_id = pid /\ e.modified_field = field
  /\ Range(e.added) = Range(NewList(v)) /\ Len(e.added) = Cardinality(Range(NewList(v)))
  /\ e.removed = <<>>

\* C27: when updateOne or updateAll sets a field that was null or absent to a
\* value that is not null, the entry written for the document records the
\* elements of the new value as added and no removed element.
C27_CreatedFieldLogged ==
  \A s \in Slots :
    /\ (Finished(s, "updateOne") /\ IsNone(inv[s].cur) /\ ~IsNone(inv[s].newv))
       => /\ Stored(s).log # <<>>
          /\ C27_AddedOnly(Head(Stored(s).log), inv[s].pid, inv[s].field, inv[s].newv)
    /\ (inv[s].h = "updateAll" /\ inv[s].pc = "done" /\ ~IsNone(inv[s].newv))
       => \A i \in DOMAIN inv[s].pre :
            IsNone(Get(inv[s].pre[i].f, inv[s].field))
            => /\ coll[i].log # <<>>
               /\ C27_AddedOnly(Head(coll[i].log), inv[s].pid, inv[s].field, inv[s].newv)

\* The list the replay loop of a finished restoreOne ended with
C28_Replayed(s) ==
  ReplayLogs(inv[s].doc.log, inv[s].log_id, inv[s].field, NewList(inv[s].cur))

\* C28: after the replay, when the current value of the field was not a list
\* and the result has at most one element, restoreOne writes that element,
\* or null for an empty result; when the current value was a list the
\* result is written as a list.
C28_CollapseToScalar ==
  \A s \in Slots :
    (Finished(s, "restoreOne") /\ inv[s].out = "restored")
    => LET r == C28_Replayed(s)
           v == Stored(s).f[inv[s].field]
       IN /\ (~IsList(inv[s].cur) /\ Len(r) = 1 /\ r # <<"<None>">>) => (v.k = "scalar" /\ v.v = r)
          /\ (~IsList(inv[s].cur) /\ (Len(r) = 0 \/ r = <<"<None>">>)) => v.k = "null"
          /\ IsList(inv[s].cur) => (v.k = "list" /\ v.v = r)

\* restoreOne wrote a single element over a value that was not a list
C28_Witness ==
  \E s \in Slots :
    /\ Finished(s, "restoreOne") /\ inv[s].out = "restored"
    /\ ~IsList(inv[s].cur) /\ Len(C28_Replayed(s)) = 1
    /\ Stored(s).f[inv[s].field].k = "scalar"

\* restoreOne wrote null for an empty result
C28_WitnessNull ==
  \E s \in Slots :
    /\ Finished(s, "restoreOne") /\ inv[s].out = "restored"
    /\ ~IsList(inv[s].cur) /\ C28_Replayed(s) = <<>>
    /\ Stored(s).f[inv[s].field].k = "null"

\* updateAll is to change the document: its value at the field is null or
\* absent, or differs from the new value
C29_ToChange(s, doc) ==
  IsNone(Get(doc.f, inv[s].field)) \/ Get(doc.f, inv[s].field) # inv[s].newv

\* C29: updateAll changes exactly the documents whose value at the field
\* differs from the normalized new value or is null or absent: each gets the
\* new value and one new log entry carrying the process id of the
\* invocation; every other document keeps its fields and its log.
C29_UpdateAllExactly ==
  \A s \in Slots :
    (inv[s].h = "updateAll" /\ inv[s].pc = "done")
    => /\ Len(coll) = Len(inv[s].pre)
       /\ \A i \in DOMAIN inv[s].pre :
            IF C29_ToChange(s, inv[s].pre[i])
            THEN /\ coll[i].f = [inv[s].pre[i].f EXCEPT ![inv[s].field] = inv[s].newv]
                 /\ Len(coll[i].log) = Len(inv[s].pre[i].log) + 1
                 /\ Tail(coll[i].log) = inv[s].pre[i].log
                 /\ Head(coll[i].log).log_id = inv[s].pid
                 /\ Head(coll[i].log).operation = TagUpdateAll
            ELSE coll[i] = inv[s].pre[i]

\* updateAll has changed one document and left another as it was
C29_Witness ==
  \E s \in Slots :
    /\ inv[s].h = "updateAll" /\ inv[s].pc = "done"
    /\ \E i, j \in DOMAIN inv[s].pre :
         /\ C29_ToChange(s, inv[s].pre[i]) /\ coll[i] # inv[s].pre[i]
         /\ ~C29_ToChange(s, inv[s].pre[j]) /\ coll[j] = inv[s].pre[j]

\* restoreAll is to leave the document alone: its log lacks the target
\* log_id, the target entry is not an update or restore entry, or the
\* restored value is the current value
C30_ToSkip(s, doc) ==
  \/ \A j \in DOMAIN doc.log : doc.log[j].log_id # inv[s].log_id
  \/ ~HasRestorableTarget(doc, inv[s].log_id)
  \/ RestoredValue(doc, inv[s].field, inv[s].log_id) = Get(doc.f, inv[s].field)

\* C30: restoreAll leaves unchanged, fields and log, every document whose
\* log lacks the target log_id, whose target entry is not an update or
\* restore entry, or whose restored value equals its current value, and
\* restores every other document of the collection; the Process Record is
\* deleted exactly when no document was restored.
C30_RestoreAllFrame ==
  \A s \in Slots :
    (inv[s].h = "restoreAll" /\ inv[s].pc = "done")
    => /\ Len(coll) = Len(inv[s].pre)
       /\ \A i \in DOMAIN inv[s].pre :
            IF C30_ToSkip(s, inv[s].pre[i])
            THEN coll[i] = inv[s].pre[i]
            ELSE /\ coll[i].f = [inv[s].pre[i].f EXCEPT
                                   ![inv[s].field] = RestoredValue(inv[s].pre[i], inv[s].field, inv[s].log_id)]
                 /\ Len(coll[i].log) = Len(inv[s].pre[i].log) + 1
                 /\ Tail(coll[i].log) = inv[s].pre[i].log
                 /\ Head(coll[i].log).log_id = inv[s].pid
       /\ (inv[s].pid \notin log_details) <=> (\A i \in DOMAIN inv[s].pre : C30_ToSkip(s, inv[s].pre[i]))

\* restoreAll has restored one document and skipped another, whose log
\* lacks the target
C30_Witness ==
  \E s \in Slots :
    /\ inv[s].h = "restoreAll" /\ inv[s].pc = "done"
    /\ inv[s].pid \in log_details
    /\ \E i, j \in DOMAIN inv[s].pre :
         /\ ~C30_ToSkip(s, inv[s].pre[i]) /\ coll[i] # inv[s].pre[i]
         /\ C30_ToSkip(s, inv[s].pre[j]) /\ coll[j] = inv[s].pre[j]

\* The value as a list: itself when it is a list, otherwise the list of
\* that one value
C31_AsList(v) ==
  IF v.k = "list" THEN v.v ELSE IF v.k = "null" THEN <<"<None>">> ELSE <<v.v[1]>>

\* The document was changed by the remove handler of slot s: the path is
\* unset and the log is the old log with one entry of this invocation in
\* front, whose only descriptor holds the old value as `removed`
C31_Removal(s, old, new) ==
  /\ new.f[inv[s].field] = Absent
  /\ Tail(new.log) = old.log
  /\ Head(new.log).log_id = inv[s].pid
  /\ Head(new.log).operation = TagRemove
  /\ Head(new.log).modified_fields
       = <<[field |-> inv[s].field, added |-> <<>>,
            removed |-> C31_AsList(old.f[inv[s].field]), renamed_to |-> ""]>>

\* C31: the log entry written by removeOne and removeAll for a removed field
\* carries the value the field held just before removal as the `removed`
\* list of its descriptor (the value itself when it was a list, otherwise a
\* one-element list), and the field is unset in the same write that stores
\* the log.
C31_RemovedValueLogged ==
  /\ [](\A s \in Slots :
         /\ (inv[s].h = "removeOne" /\ inv[s].pc = "done" /\ inv[s].out = "removed")
            => \E i \in DOMAIN inv[s].pre :
                 /\ inv[s].pre[i].sid = inv[s].sid
                 /\ C31_Removal(s, inv[s].pre[i], coll[i])
         /\ (inv[s].h = "removeAll" /\ inv[s].pc = "done" /\ inv[s].out = "removed")
            => \A i \in DOMAIN inv[s].pre :
                 HasField(inv[s].pre[i], inv[s].field) => C31_Removal(s, inv[s].pre[i], coll[i]))
  /\ [][\A s \in Slots, i \in DOMAIN coll :
         (/\ inv[s].h \in {"removeOne", "removeAll"}
          /\ i \in DOMAIN coll'
          /\ coll'[i] # coll[i])
         => C31_Removal(s, coll[i], coll'[i])]_vars

\* removeOne has removed a list, and removeAll a text
C31_Witness ==
  \E s \in Slots :
    /\ inv[s].pc = "done" /\ inv[s].out = "removed"
    /\ \E i \in DOMAIN inv[s].pre :
         /\ coll[i] # inv[s].pre[i]
         /\ \/ inv[s].h = "removeOne" /\ inv[s].pre[i].f[inv[s].field] = List(<<"a", "b">>)
            \/ inv[s].h = "removeAll" /\ inv[s].pre[i].f[inv[s].field] = Scalar("a")

\* Two updateOne calls on different fields of one document have both
\* returned after a successful write, and both had read the same state of
\* the document: each read before the other wrote
C32_BothRead ==
  /\ \A s \in Slots : inv[s].h = "updateOne" /\ inv[s].pc = "done" /\ inv[s].out = "updated"
  /\ inv[1].sid = inv[2].sid
  /\ inv[1].field # inv[2].field
  /\ inv[1].doc = inv[2].doc

\* C32: when two single-document handlers (for example two updateOne calls
\* on different fields) run interleaved on the same document, each one
\* reading the document before the other writes, the final log of the
\* document contains the entries of both: no committed log entry is lost by
\* the other handler's write of the whole log array.
C32_NoLogEntryLost ==
  C32_BothRead
  => \A s \in Slots :
       \E j \in DOMAIN Stored(s).log : Stored(s).log[j].log_id = inv[s].pid

\* The top-level fields that the rows of the file of invocation s write in
\* the document with this stable_id
C33_Written(s, sid) ==
  IF inv[s].h = "updateFileCsv"
  THEN {k \in Range(inv[s].file.update_fields) :
          \E i \in DOMAIN inv[s].file.rows : CsvMatch(inv[s].file.rows[i]) = sid}
  ELSE UNION {PresentFields(inv[s].file[i].f) :
                i \in {j \in DOMAIN inv[s].file : inv[s].file[j].has_sid /\ inv[s].file[j].sid = sid}}

\* C33: the log entry that updateFile prepends for a row names only fields
\* changed by that row's own write: when another writer changes the same
\* document between updateFile's first read and its read-back after the
\* update, the other writer's field changes are not attributed to
\* updateFile's process id.
C33_OwnChangesOnly ==
  \A s \in Slots :
    inv[s].h \in {"updateFileCsv", "updateFileJson"}
    => \A i \in DOMAIN coll : \A j \in DOMAIN coll[i].log :
         coll[i].log[j].log_id = inv[s].pid
         => \A d \in DOMAIN coll[i].log[j].modified_fields :
              TopKey(coll[i].log[j].modified_fields[d].field) \in C33_Written(s, coll[i].sid)

\* At most one document of the collection has each stable_id
C34_OnePerStableId(c) == \A i, j \in DOMAIN c : c[i].sid = c[j].sid => i = j

\* C34: after any run of insertDocuments on a collection that held at most
\* one document per stable_id, the collection still holds at most one
\* document per stable_id, including when one input file contains two
\* documents with the same stable_id.
C34_StableIdStaysUnique ==
  \A s \in Slots :
    (/\ inv[s].h = "insertDocuments" /\ inv[s].pc = "done"
     /\ C34_OnePerStableId(inv[s].pre))
    => C34_OnePerStableId(coll)

\* insertDocuments has returned from its second run on the same file
C35_SecondRun ==
  /\ inv[1].h = "insertDocuments" /\ inv[1].pc = "done" /\ inv[1].out # "KeyError"
  /\ inv[1].pid = 2
  /\ inv[1].file = inv[2].file

\* C35: insertDocuments is idempotent: running it a second time with the
\* same input files, with no other operation in between, skips every
\* document, so no document's fields or log change in the second run, also
\* for a stored document that had fields absent from the incoming document.
C35_InsertIdempotent == C35_SecondRun => coll = inv[1].pre

\* The entries of the log that carry this log_id
C36_Entries(log, log_id) == {j \in DOMAIN log : log[j].log_id = log_id}

\* C36: one handler invocation prepends at most one log entry per document,
\* so within one document's log every log_id occurs at most once and a
\* restore target log_id names a single entry; this holds for updateFile
\* when a CSV or JSON file has several rows for the same document.
C36_OneEntryPerInvocation ==
  \A s \in Slots :
    inv[s].h \in {"updateFileCsv", "updateFileJson"}
    => \A i \in DOMAIN coll : Cardinality(C36_Entries(coll[i].log, inv[s].pid)) <= 1

\* Every path apart from the old path, the new path, and the mappings they
\* lie in keeps its value
C37_OthersKept(s, old, new) ==
  \A k \in Paths :
    (/\ k \notin {inv[s].field, inv[s].field2}
     /\ k \notin {Parent(inv[s].field), Parent(inv[s].field2)}
     /\ Parent(k) \notin {inv[s].field, inv[s].field2})
    => new.f[k] = old.f[k]

\* A value held at the new path before the rename is the `removed` list of
\* a descriptor of the entry the rename wrote
C37_OverwrittenRecorded(s, old, new) ==
  old.f[inv[s].field2].k \in {"scalar", "list"}
  => \E d \in DOMAIN Head(new.log).modified_fields :
       Head(new.log).modified_fields[d].removed = old.f[inv[s].field2].v

\* C37: renameOne and renameAll change only the old path, the new path and
\* the log: every other field of the document keeps its value, and a value
\* already stored at the new path is not dropped without being recorded in
\* the log entry.
C37_RenameFrame ==
  \A s \in Slots :
    (inv[s].h \in {"renameOne", "renameAll"} /\ inv[s].pc = "done" /\ inv[s].out = "renamed")
    => \A i \in DOMAIN inv[s].pre :
         coll[i] # inv[s].pre[i]
         => /\ C37_OthersKept(s, inv[s].pre[i], coll[i])
            /\ C37_OverwrittenRecorded(s, inv[s].pre[i], coll[i])

====
